---- MODULE Spec2Model ----
(***************************************************************************)
(* The BTC staking message server of x/btcstaking/keeper/msg_server.go:    *)
(* finality-provider registration and editing, BTC delegation creation,    *)
(* inclusion proofs, covenant signatures, early unbonding and selective    *)
(* slashing.                                                               *)
(*                                                                         *)
(* Every handler is one action.  What a handler decides (which return      *)
(* statement it leaves by, and how many cryptographic verifications it ran *)
(* before) is computed by a <Handler>Check operator that follows the code  *)
(* top to bottom; the action applies the writes of the success path.       *)
(* Keeper and type methods whose bodies are not part of msg_server.go      *)
(* (GetStatus, HasCovenantQuorums, VerifyInclusionProofAndGetHeight, ...)  *)
(* are modelled from the design document and marked so in MODEL_MAP.json.  *)
(***************************************************************************)
EXTENDS Integers, Sequences, FiniteSets, Bags, TLC

VARIABLES
    fps,              \* finality-provider registry: BTC pk -> record
    dels,             \* delegation store: staking-tx hash -> BTCDelegation
    paramsStore,      \* versioned parameters, paramsStore[v + 1] is version v
    tip,              \* BTC light client tip height
    wValue,           \* btccheckpoint CheckpointFinalizationTimeout
    powerDistEvents,  \* power-distribution event log, in insertion order
    refundable,       \* bag of messages given to IndexRefundableMsg
    gasFees,          \* number of delegation creation fees consumed
    last              \* the last message handled and how its handler returned

vars == <<fps, dels, paramsStore, tip, wValue, powerDistEvents, refundable, gasFees, last>>

(***************************************************************************)
(* Bounds of the model.                                                    *)
(***************************************************************************)
MaxTip == 2
MaxParamsVersions == 2

Uint64Max == 2147483647

\* sdkmath.LegacyOneDec(): the commission rate 1, rates being counted in halves
OneDec == 2

TxHashes == {1}
FpSks == {1, 2}
CovenantMembers == {1, 2, 3}
Addrs == {"bbn1"}
Authority == "gov"
StakingTimes == {1, 2}
WValues == {1}
Heights == 1..MaxTip

\* btcec.PrivKeyFromBytes: the public key that belongs to a secret key
PrivKeyFromBytes(sk) == 100 + sk

FpPks == {PrivKeyFromBytes(sk) : sk \in FpSks}

PENDING == "PENDING"
ACTIVE == "ACTIVE"
UNBONDED == "UNBONDED"

\* the parameters of version 0
GenesisParams == [CovenantPks |-> {1, 2}, CovenantQuorum |-> 1, MinCommissionRate |-> 1]

\* parameter sets a governance proposal may install
ParamChoices ==
    { [CovenantPks |-> {2, 3}, CovenantQuorum |-> 2, MinCommissionRate |-> 2] }

(***************************************************************************)
(* Parameters                                                              *)
(***************************************************************************)
\* GetParamsWithVersion: the latest parameters and their version
GetParamsWithVersion ==
    [Version |-> Len(paramsStore) - 1, Params |-> paramsStore[Len(paramsStore)]]

\* GetParamsByVersion: nil (here HasParamsVersion false) for an unknown version
HasParamsVersion(v) == (v + 1) \in DOMAIN paramsStore

GetParamsByVersion(v) == paramsStore[v + 1]

HasCovenantPK(params, pk) == pk \in params.CovenantPks

\* Keeper.MinCommissionRate: the minimum commission rate of the latest parameters
MinCommissionRate == GetParamsWithVersion.Params.MinCommissionRate

(***************************************************************************)
(* BTCDelegation methods                                                   *)
(***************************************************************************)
HasInclusionProof(d) == d.StartHeight > 0 /\ d.EndHeight > 0

HasCovenantQuorums(d, quorum) ==
    /\ Cardinality(d.CovenantSigs) >= quorum
    /\ Cardinality(d.CovenantSlashingSigs) >= quorum
    /\ Cardinality(d.CovenantUnbondingSigList) >= quorum

IsUnbondedEarly(d) == d.DelegatorUnbondingSig

\* BTCDelegation.IsSignedByCovMember: staking-slashing signatures of pk present
IsSignedByCovMember(d, pk) == pk \in d.CovenantSigs

\* BTCUndelegation.IsSignedByCovMember: unbonding and unbonding-slashing
\* signatures of pk present
UndelegationIsSignedByCovMember(d, pk) ==
    pk \in d.CovenantSlashingSigs /\ pk \in d.CovenantUnbondingSigList

\* the derived status
GetStatus(d, btcHeight, w, covenantQuorum) ==
    IF IsUnbondedEarly(d) THEN UNBONDED
    ELSE IF ~HasInclusionProof(d) \/ ~HasCovenantQuorums(d, covenantQuorum) THEN PENDING
    ELSE IF btcHeight >= d.EndHeight - w THEN UNBONDED
    ELSE ACTIVE

\* index of a finality provider in the delegation's list, -1 if absent
GetFpIdx(d, fpPk) ==
    LET I == {i \in DOMAIN d.FpBtcPkList : d.FpBtcPkList[i] = fpPk}
    IN IF I = {} THEN -1 ELSE CHOOSE i \in I : \A j \in I : i <= j

\* uint64 subtraction as in btcDel.EndHeight-wValue
Uint64Sub(a, b) == IF a >= b THEN a - b ELSE Uint64Max - (b - a) + 1

(***************************************************************************)
(* Results of a handler: the error it returns ("nil" on success), the      *)
(* source line of the return statement, and the number of cryptographic   *)
(* verifications it ran before returning.                                  *)
(***************************************************************************)
Ret(err, line, crypto) == [err |-> err, line |-> line, crypto |-> crypto]

\* pk: the covenant key or the finality-provider key of the message, else 0;
\* height: the inclusion height the handler verified, 0 if it verified none
LastOf(op, hash, pk, r, height) ==
    [op |-> op, hash |-> hash, pk |-> pk, err |-> r.err, line |-> r.line,
     crypto |-> r.crypto, height |-> height]

LastH(op, hash, r, height) == LastOf(op, hash, 0, r, height)

LastPk(op, hash, pk, r) == LastOf(op, hash, pk, r, 0)

Last(op, hash, r) == LastOf(op, hash, 0, r, 0)

NoLast(op) == LastH(op, 0, Ret("nil", 0, 0), 0)

Init ==
    /\ fps = << >>
    /\ dels = << >>
    /\ paramsStore = <<GenesisParams>>
    /\ tip = 1
    /\ wValue \in WValues
    /\ powerDistEvents = << >>
    /\ refundable = EmptyBag
    /\ gasFees = 0
    /\ last = NoLast("init")

(***************************************************************************)
(* The BTC light client extends its best chain by one block.               *)
(***************************************************************************)
AdvanceTip ==
    /\ tip < MaxTip
    /\ tip' = tip + 1
    /\ last' = NoLast("AdvanceTip")
    /\ UNCHANGED <<fps, dels, paramsStore, wValue, powerDistEvents, refundable, gasFees>>

(***************************************************************************)
(* UpdateParams                                                            *)
(***************************************************************************)
UpdateParamsCheck(req) ==
    IF req.authority # Authority THEN Ret("ErrInvalidSigner", 39, 0)
    ELSE IF ~req.valid THEN Ret("ErrInvalidProposalMsg", 42, 0)
    ELSE Ret("nil", 50, 0)

UpdateParams(req) ==
    LET r == UpdateParamsCheck(req) IN
    /\ Len(paramsStore) < MaxParamsVersions
    /\ last' = Last("UpdateParams", 0, r)
    /\ IF r.err = "nil"
       THEN paramsStore' = Append(paramsStore, req.params)
       ELSE UNCHANGED paramsStore
    /\ UNCHANGED <<fps, dels, tip, wValue, powerDistEvents, refundable, gasFees>>

UpdateParamsReqs ==
    [authority : {Authority}, valid : BOOLEAN, params : ParamChoices]
    \cup [authority : {"other"}, valid : {TRUE}, params : ParamChoices]

(***************************************************************************)
(* CreateFinalityProvider                                                  *)
(***************************************************************************)
\* sdk.AccAddressFromBech32 accepts an address written all in lower case or
\* all in upper case, and nothing else
ValidBech32 == {"bbn1", "bbn1a", "BBN1A", "bbn1b"}

\* strings.ToLower on the addresses of the model
ToLower(s) == IF s \in {"BBN1A", "bbn1A"} THEN "bbn1a" ELSE s

\* AccAddress.String() of the address that AccAddressFromBech32 parsed: the
\* canonical lower-case encoding
AccAddressString(s) == ToLower(s)

\* strings.EqualFold
EqualFold(a, b) == ToLower(a) = ToLower(b)

CreateFinalityProviderCheck(req) ==
    IF req.fault = "basic" THEN Ret("InvalidArgument", 61, 0)
    ELSE IF req.fault = "addr" \/ req.addr \notin ValidBech32
         THEN Ret("InvalidArgument", 66, 0)
    ELSE IF req.fault = "pop" THEN Ret("InvalidArgument", 71, 1)
    ELSE IF req.btcPk \in DOMAIN fps THEN Ret("ErrFpRegistered", 75, 1)
    ELSE Ret("nil", 77, 1)

\* Keeper.AddFinalityProvider: the new record of the registry
AddFinalityProvider(registry, req) ==
    registry @@ (req.btcPk :> [Addr |-> req.addr,
                               Description |-> req.description,
                               Commission |-> req.commission,
                               Slashed |-> FALSE,
                               SlashedBtcHeight |-> 0])

CreateFinalityProvider(req) ==
    LET r == CreateFinalityProviderCheck(req) IN
    /\ last' = Last("CreateFinalityProvider", 0, r)
    /\ IF r.err = "nil"
       THEN fps' = AddFinalityProvider(fps, req)
       ELSE UNCHANGED fps
    /\ UNCHANGED <<dels, paramsStore, tip, wValue, powerDistEvents, refundable, gasFees>>

CreateFinalityProviderReqs ==
    [btcPk : FpPks, addr : Addrs, description : {"d0"}, commission : {OneDec},
     fault : {"none", "basic", "addr", "pop"}]

(***************************************************************************)
(* EditFinalityProvider                                                    *)
(***************************************************************************)
\* (mutant) the lower bound of the commission is exclusive
CommissionCheck_MinExclusive(commission) ==
    IF commission <= MinCommissionRate THEN Ret("ErrCommissionLTMinRate", 92, 0)
    ELSE IF commission > OneDec THEN Ret("ErrCommissionGTMaxRate", 95, 0)
    ELSE Ret("nil", 96, 0)

\* the commission is at least the minimum rate of the parameters and at most 1
CommissionCheck(commission) ==
    IF commission < MinCommissionRate THEN Ret("ErrCommissionLTMinRate", 92, 0)
    ELSE IF commission > OneDec THEN Ret("ErrCommissionGTMaxRate", 95, 0)
    ELSE Ret("nil", 96, 0)

\* (mutant) any signer may edit
SignerCheck_Anyone(reqAddr, fpAddr) == TRUE

\* the signer corresponds to the finality provider's address
SignerCheck(reqAddr, fpAddr) == EqualFold(AccAddressString(reqAddr), fpAddr)

EditFinalityProviderCheck(req) ==
    IF ~req.basicOk THEN Ret("InvalidArgument", 85, 0)
    ELSE IF CommissionCheck(req.commission).err # "nil"
         THEN CommissionCheck(req.commission)
    ELSE IF req.btcPk \notin DOMAIN fps THEN Ret("ErrFpNotFound", 101, 0)
    ELSE IF req.addr \notin ValidBech32 THEN Ret("InvalidArgument", 106, 0)
    ELSE IF ~SignerCheck(req.addr, fps[req.btcPk].Addr)
         THEN Ret("PermissionDenied", 111, 0)
    ELSE Ret("nil", 120, 0)

\* (mutant) the edited record is built anew and loses the slashing
SetEditedFinalityProvider_Fresh(fp, req) ==
    [fp EXCEPT !.Description = req.description, !.Commission = req.commission,
               !.Slashed = FALSE, !.SlashedBtcHeight = 0]

\* fp.Description = req.Description; fp.Commission = req.Commission
SetEditedFinalityProvider(fp, req) ==
    [fp EXCEPT !.Description = req.description, !.Commission = req.commission]

\* (mutant) the edit is stored before the signer is compared with the
\* registered address
EditFinalityProvider_StoreFirst(req) ==
    LET r == EditFinalityProviderCheck(req) IN
    /\ last' = LastPk("EditFinalityProvider", 0, req.btcPk, r)
    /\ IF r.line \in {111, 120}
       THEN fps' = [fps EXCEPT ![req.btcPk] = SetEditedFinalityProvider(fps[req.btcPk], req)]
       ELSE UNCHANGED fps
    /\ UNCHANGED <<dels, paramsStore, tip, wValue, powerDistEvents, refundable, gasFees>>

EditFinalityProvider(req) ==
    LET r == EditFinalityProviderCheck(req) IN
    /\ last' = LastPk("EditFinalityProvider", 0, req.btcPk, r)
    /\ IF r.err = "nil"
       THEN fps' = [fps EXCEPT ![req.btcPk] = SetEditedFinalityProvider(fps[req.btcPk], req)]
       ELSE UNCHANGED fps
    /\ UNCHANGED <<dels, paramsStore, tip, wValue, powerDistEvents, refundable, gasFees>>

\* the edits of the full model: a provider confirms what it registered, or
\* asks for a commission above 1
EditFinalityProviderReqs ==
    [btcPk : {PrivKeyFromBytes(1)}, addr : Addrs, description : {"d0"},
     commission : {OneDec, OneDec + 1}, basicOk : {TRUE}]

(***************************************************************************)
(* Inclusion proofs.  A proof names the height of the header it resolves   *)
(* to; fault says what is wrong with it.                                   *)
(***************************************************************************)
NoProof == [present |-> FALSE, height |-> 0, fault |-> "none"]

Proofs(faults) == [present : {TRUE}, height : Heights, fault : faults]

BadProofs(faults) == [present : {TRUE}, height : {1}, fault : faults]

\* NewParsedProofOfInclusion
ParsedProofOk(proof) == proof.fault # "parse"

\* VerifyInclusionProofAndGetHeight: the error, "nil" when the proof is good
VerifyInclusionProofAndGetHeight(proof) ==
    IF proof.height > tip THEN "HeaderUnknown"
    ELSE IF proof.fault = "orphan" THEN "NotOnBestChain"
    ELSE IF proof.fault = "merkle" THEN "ProofInvalid"
    ELSE "nil"

(***************************************************************************)
(* CreateBTCDelegation                                                     *)
(***************************************************************************)
MaxFpListLen == Cardinality(FpSks)

\* the finality-provider lists of the requests: <<pk1>>, <<pk1, pk2>>, ...
FpLists == {[i \in 1..n |-> PrivKeyFromBytes(i)] : n \in 1..MaxFpListLen}

\* (mutant) the providers are looked up but their slashing is not checked
CheckFinalityProviders_NoSlashedCheck(fpList) ==
    IF \E i \in DOMAIN fpList : fpList[i] \notin DOMAIN fps
    THEN Ret("ErrFpNotFound", 155, 1)
    ELSE Ret("nil", 161, 1)

\* the loop over the finality providers of the request (step 4): the first
\* provider that is unknown or slashed decides the error
CheckFinalityProviders(fpList) ==
    LET Bad == {i \in DOMAIN fpList :
                    fpList[i] \notin DOMAIN fps \/ fps[fpList[i]].Slashed}
    IN IF Bad = {} THEN Ret("nil", 161, 1)
       ELSE LET i == CHOOSE k \in Bad : \A j \in Bad : k <= j
            IN IF fpList[i] \notin DOMAIN fps
               THEN Ret("ErrFpNotFound", 155, 1)
               ELSE Ret("ErrFpAlreadySlashed", 159, 1)

\* step 3 (mutant): the lookup of the staking tx hash never finds a delegation
IsDuplicatedStakingTx_Never(hash) == FALSE

\* step 3: getBTCDelegation finds a delegation with this staking tx hash
IsDuplicatedStakingTx(hash) == hash \in DOMAIN dels

\* (mutant) the staking tx hash is looked up before the message is parsed
CreateBTCDelegationCheck_LookupFirst(req) ==
    IF IsDuplicatedStakingTx(req.hash) THEN Ret("ErrReusedStakingTx", 146, 1)
    ELSE IF req.fault = "parse" THEN Ret("InvalidArgument", 133, 0)
    ELSE IF req.fault = "pop" THEN Ret("ErrInvalidProofOfPossession", 139, 1)
    ELSE IF CheckFinalityProviders(req.fpList).err # "nil"
         THEN CheckFinalityProviders(req.fpList)
    ELSE IF req.fault = "params" THEN Ret("ErrInvalidParams", 171, 2)
    ELSE IF req.proof.present /\ VerifyInclusionProofAndGetHeight(req.proof) # "nil"
         THEN Ret(VerifyInclusionProofAndGetHeight(req.proof), 184, 2)
    ELSE IF req.hash \in DOMAIN dels THEN Ret("panic", 226, 2)
    ELSE Ret("nil", 229, 2)

CreateBTCDelegationCheck(req) ==
    IF req.fault = "parse" THEN Ret("InvalidArgument", 133, 0)
    ELSE IF req.fault = "pop" THEN Ret("ErrInvalidProofOfPossession", 139, 1)
    ELSE IF IsDuplicatedStakingTx(req.hash) THEN Ret("ErrReusedStakingTx", 146, 1)
    ELSE IF CheckFinalityProviders(req.fpList).err # "nil"
         THEN CheckFinalityProviders(req.fpList)
    ELSE IF req.fault = "params" THEN Ret("ErrInvalidParams", 171, 2)
    ELSE IF req.proof.present /\ VerifyInclusionProofAndGetHeight(req.proof) # "nil"
         THEN Ret(VerifyInclusionProofAndGetHeight(req.proof), 184, 2)
    ELSE IF req.hash \in DOMAIN dels THEN Ret("panic", 226, 2)
    ELSE Ret("nil", 229, 2)

\* parsedMsg.StakingValue: the value of the staking output.  A request
\* carries its staking transaction by the hash, and the output of a
\* transaction has one value.
StakingValue(req) == 1000 * req.hash

\* (mutant) the delegation is constructed with covenant signatures in place
NewBTCDelegation_PreSigned(req, startHeight, endHeight, version) ==
    [FpBtcPkList |-> req.fpList,
     StakingTime |-> req.stakingTime,
     StartHeight |-> startHeight,
     EndHeight |-> endHeight,
     CovenantSigs |-> CovenantMembers,
     CovenantSlashingSigs |-> CovenantMembers,
     CovenantUnbondingSigList |-> CovenantMembers,
     DelegatorUnbondingSig |-> FALSE,
     TotalSat |-> StakingValue(req),
     StakingTx |-> req.hash,
     ParamsVersion |-> version]

\* the delegation built in step 7
NewBTCDelegation(req, startHeight, endHeight, version) ==
    [FpBtcPkList |-> req.fpList,
     StakingTime |-> req.stakingTime,
     StartHeight |-> startHeight,
     EndHeight |-> endHeight,
     CovenantSigs |-> {},
     CovenantSlashingSigs |-> {},
     CovenantUnbondingSigList |-> {},
     DelegatorUnbondingSig |-> FALSE,
     TotalSat |-> StakingValue(req),
     StakingTx |-> req.hash,
     ParamsVersion |-> version]

\* (mutant) the end height forgets the staking time
EndHeightOf_NoStakingTime(startHeight, stakingTime) == startHeight

\* endHeight = startHeight + uint64(StakingTime)
EndHeightOf(startHeight, stakingTime) == startHeight + stakingTime

\* (mutant) the creation fee is consumed whether or not a proof is supplied
DelegationCreationFee_Always(req) == 1

\* step 6: the creation fee is consumed when the request has no inclusion
\* proof; fees are counted in units of DelegationCreationBaseGasFee
DelegationCreationFee(req) == IF req.proof.present THEN 0 ELSE 1

\* (mutant) the delegation records the version after the current one
CreateBTCDelegation_NextVersion(req) ==
    LET r == CreateBTCDelegationCheck(req)
        vp == GetParamsWithVersion
        startHeight == IF req.proof.present THEN req.proof.height ELSE 0
        endHeight == IF req.proof.present
                     THEN EndHeightOf(startHeight, req.stakingTime) ELSE 0
    IN
    /\ IF r.err = "nil"
       THEN /\ dels' = dels @@ (req.hash :> NewBTCDelegation(req, startHeight, endHeight, vp.Version + 1))
            /\ gasFees' = gasFees + DelegationCreationFee(req)
            /\ last' = LastH("CreateBTCDelegation", req.hash, r, startHeight)
       ELSE /\ UNCHANGED <<dels, gasFees>>
            /\ last' = Last("CreateBTCDelegation", req.hash, r)
    /\ UNCHANGED <<fps, paramsStore, tip, wValue, powerDistEvents, refundable>>

CreateBTCDelegation(req) ==
    LET r == CreateBTCDelegationCheck(req)
        vp == GetParamsWithVersion
        startHeight == IF req.proof.present THEN req.proof.height ELSE 0
        endHeight == IF req.proof.present
                     THEN EndHeightOf(startHeight, req.stakingTime) ELSE 0
    IN
    /\ IF r.err = "nil"
       THEN /\ dels' = dels @@ (req.hash :> NewBTCDelegation(req, startHeight, endHeight, vp.Version))
            /\ gasFees' = gasFees + DelegationCreationFee(req)
            /\ last' = LastH("CreateBTCDelegation", req.hash, r, startHeight)
       ELSE /\ UNCHANGED <<dels, gasFees>>
            /\ last' = Last("CreateBTCDelegation", req.hash, r)
    /\ UNCHANGED <<fps, paramsStore, tip, wValue, powerDistEvents, refundable>>

\* the requests: every combination of the fields of a well-formed request,
\* and requests with one defect each
CreateBTCDelegationReqs ==
    [hash : TxHashes, fpList : FpLists, stakingTime : StakingTimes,
     fault : {"none"}, proof : {NoProof} \cup Proofs({"none"})]
    \cup [hash : TxHashes, fpList : {<<PrivKeyFromBytes(1)>>}, stakingTime : {2},
          fault : {"parse", "pop", "params"}, proof : {NoProof}]
    \cup [hash : TxHashes, fpList : {<<PrivKeyFromBytes(1)>>}, stakingTime : {2},
          fault : {"none"}, proof : BadProofs({"merkle", "orphan"})]

(***************************************************************************)
(* AddBTCDelegationInclusionProof                                          *)
(***************************************************************************)
\* getBTCDelWithParams: the error of GetBTCDelegation, or the panic on a
\* missing parameter version
\* (mutant) the latest parameters stand in for the delegation's version
ParamsOf_Latest(btcDel) == GetParamsWithVersion.Params

\* getBTCDelWithParams: the parameters of the version the delegation records
ParamsOf(btcDel) == GetParamsByVersion(btcDel.ParamsVersion)

\* (mutant) a missing parameter version is returned as an ordinary error
GetBTCDelWithParamsCheck_MissingAsError(hash, line) ==
    IF hash \notin DOMAIN dels THEN Ret("ErrBTCDelegationNotFound", line, 0)
    ELSE IF ~HasParamsVersion(dels[hash].ParamsVersion)
         THEN Ret("ErrBTCDelegationNotFound", line, 0)
    ELSE Ret("nil", 329, 0)

GetBTCDelWithParamsCheck(hash, line) ==
    IF hash \notin DOMAIN dels THEN Ret("ErrBTCDelegationNotFound", line, 0)
    ELSE IF ~HasParamsVersion(dels[hash].ParamsVersion) THEN Ret("panic", 326, 0)
    ELSE Ret("nil", 329, 0)

\* (mutant) a delegation that already has an inclusion proof is accepted
InclusionProofGuards_NoProofCheck(btcDel, params) ==
    IF ~HasCovenantQuorums(btcDel, params.CovenantQuorum)
    THEN Ret("ErrNoCovenantQuorum", 254, 0)
    ELSE IF btcDel.DelegatorUnbondingSig THEN Ret("ErrAlreadyUnbonded", 259, 0)
    ELSE Ret("nil", 260, 0)

\* (mutant) the covenant quorum is not required
InclusionProofGuards_NoQuorumCheck(btcDel, params) ==
    IF HasInclusionProof(btcDel) THEN Ret("ErrHasInclusionProof", 249, 0)
    ELSE IF btcDel.DelegatorUnbondingSig THEN Ret("ErrAlreadyUnbonded", 259, 0)
    ELSE Ret("nil", 260, 0)

\* (mutant) the unbonding signature is looked at first
InclusionProofGuards_UnbondedFirst(btcDel, params) ==
    IF btcDel.DelegatorUnbondingSig THEN Ret("ErrAlreadyUnbonded", 259, 0)
    ELSE IF HasInclusionProof(btcDel) THEN Ret("ErrHasInclusionProof", 249, 0)
    ELSE IF ~HasCovenantQuorums(btcDel, params.CovenantQuorum)
         THEN Ret("ErrNoCovenantQuorum", 254, 0)
    ELSE Ret("nil", 260, 0)

\* steps 2 to 4: no inclusion proof yet, a covenant quorum, not unbonded
InclusionProofGuards(btcDel, params) ==
    IF HasInclusionProof(btcDel) THEN Ret("ErrHasInclusionProof", 249, 0)
    ELSE IF ~HasCovenantQuorums(btcDel, params.CovenantQuorum)
         THEN Ret("ErrNoCovenantQuorum", 254, 0)
    ELSE IF btcDel.DelegatorUnbondingSig THEN Ret("ErrAlreadyUnbonded", 259, 0)
    ELSE Ret("nil", 260, 0)

AddBTCDelegationInclusionProofCheck(req) ==
    IF GetBTCDelWithParamsCheck(req.hash, 244).err # "nil"
    THEN GetBTCDelWithParamsCheck(req.hash, 244)
    ELSE LET btcDel == dels[req.hash]
             params == ParamsOf(btcDel)
         IN IF InclusionProofGuards(btcDel, params).err # "nil"
            THEN InclusionProofGuards(btcDel, params)
            ELSE IF ~ParsedProofOk(req.proof) THEN Ret("ErrInvalidProof", 265, 0)
            ELSE IF VerifyInclusionProofAndGetHeight(req.proof) # "nil"
                 THEN Ret(VerifyInclusionProofAndGetHeight(req.proof), 279, 0)
            ELSE Ret("nil", 313, 0)

\* (mutant) the end height is one block late
SetHeights_EndLate(btcDel, inclusionHeight) ==
    [btcDel EXCEPT !.StartHeight = inclusionHeight,
                   !.EndHeight = inclusionHeight + btcDel.StakingTime + 1]

\* (mutant) the end height is counted from the tip, not from the inclusion
\* height
SetHeights_FromTip(btcDel, inclusionHeight) ==
    [btcDel EXCEPT !.StartHeight = inclusionHeight,
                   !.EndHeight = tip + btcDel.StakingTime]

\* (mutant) the delegation is moved to the current parameters with the
\* heights
SetHeights_CurrentParams(btcDel, inclusionHeight) ==
    [btcDel EXCEPT !.StartHeight = inclusionHeight,
                   !.EndHeight = EndHeightOf(inclusionHeight, btcDel.StakingTime),
                   !.ParamsVersion = GetParamsWithVersion.Version]

\* step 6: set start height and end height
SetHeights(btcDel, inclusionHeight) ==
    [btcDel EXCEPT !.StartHeight = inclusionHeight,
                   !.EndHeight = EndHeightOf(inclusionHeight, btcDel.StakingTime)]

\* IndexRefundableMsg
IndexRefundableMsg(index, op, hash, pk) ==
    index (+) SetToBag({[op |-> op, hash |-> hash, pk |-> pk]})

\* addPowerDistUpdateEvent: append an event to the height-indexed log
AddPowerDistUpdateEvent(log, height, hash, newState) ==
    Append(log, [height |-> height, hash |-> hash, state |-> newState])

\* (mutant) the activation is indexed at the inclusion height
EmitActivationAndExpiry_AtStartHeight(log, btcDel, hash) ==
    AddPowerDistUpdateEvent(
      AddPowerDistUpdateEvent(log, btcDel.StartHeight, hash, ACTIVE),
      Uint64Sub(btcDel.EndHeight, wValue), hash, UNBONDED)

\* (mutant) the events of the tip height are replaced, not extended
EmitActivationAndExpiry_OverwriteHeight(log, btcDel, hash) ==
    AddPowerDistUpdateEvent(
      AddPowerDistUpdateEvent(SelectSeq(log, LAMBDA e : e.height # tip), tip, hash, ACTIVE),
      Uint64Sub(btcDel.EndHeight, wValue), hash, UNBONDED)

\* step 7: the ACTIVE event at the height of the BTC tip, then the UNBONDED
\* event at EndHeight - w
EmitActivationAndExpiry(log, btcDel, hash) ==
    AddPowerDistUpdateEvent(
      AddPowerDistUpdateEvent(log, tip, hash, ACTIVE),
      Uint64Sub(btcDel.EndHeight, wValue), hash, UNBONDED)

AddBTCDelegationInclusionProof(req) ==
    LET r == AddBTCDelegationInclusionProofCheck(req)
        inclusionHeight == req.proof.height
    IN
    IF r.err = "nil"
    THEN LET btcDel == SetHeights(dels[req.hash], inclusionHeight)
         IN /\ dels' = [dels EXCEPT ![req.hash] = btcDel]
            /\ powerDistEvents' = EmitActivationAndExpiry(powerDistEvents, btcDel, req.hash)
            /\ refundable' = IndexRefundableMsg(refundable, "AddBTCDelegationInclusionProof", req.hash, 0)
            /\ last' = LastH("AddBTCDelegationInclusionProof", req.hash, r, inclusionHeight)
            /\ UNCHANGED <<fps, paramsStore, tip, wValue, gasFees>>
    ELSE /\ last' = Last("AddBTCDelegationInclusionProof", req.hash, r)
         /\ UNCHANGED <<fps, dels, paramsStore, tip, wValue, powerDistEvents, refundable, gasFees>>

AddBTCDelegationInclusionProofReqs ==
    [hash : TxHashes,
     proof : Proofs({"none"}) \cup BadProofs({"parse", "merkle", "orphan"})]

(***************************************************************************)
(* AddCovenantSigs.  A signature is modelled by whether it verifies: a     *)
(* list of adaptor signatures is a sequence of booleans.                   *)
(***************************************************************************)
\* ParseEncVerifyAdaptorSignatures: one adaptor signature per finality
\* provider, every one of them valid
ParseEncVerifyAdaptorSignatures(fpList, sigs) ==
    Len(sigs) = Len(fpList) /\ \A i \in DOMAIN sigs : sigs[i]

\* btcstaking.VerifyTransactionSigWithOutput
VerifyTransactionSigWithOutput(sig) == sig

\* (mutant) the member's earlier signatures are not looked up
CovenantSigsGuards_NoDuplicateCheck(req, btcDel, params) ==
    IF ~HasCovenantPK(params, req.pk) THEN Ret("ErrInvalidCovenantPK", 351, 0)
    ELSE IF GetStatus(btcDel, tip, wValue, params.CovenantQuorum) = UNBONDED
         THEN Ret("ErrInvalidCovenantSig", 367, 0)
    ELSE Ret("nil", 368, 0)

\* (mutant) signatures are accepted on an unbonded delegation
CovenantSigsGuards_NoUnbondedCheck(req, btcDel, params) ==
    IF ~HasCovenantPK(params, req.pk) THEN Ret("ErrInvalidCovenantPK", 351, 0)
    ELSE IF IsSignedByCovMember(btcDel, req.pk)
            /\ UndelegationIsSignedByCovMember(btcDel, req.pk)
         THEN Ret("ErrDuplicatedCovenantSig", 358, 0)
    ELSE Ret("nil", 368, 0)

\* (mutant) signatures are accepted only on an active delegation
CovenantSigsGuards_ActiveOnly(req, btcDel, params) ==
    IF ~HasCovenantPK(params, req.pk) THEN Ret("ErrInvalidCovenantPK", 351, 0)
    ELSE IF IsSignedByCovMember(btcDel, req.pk)
            /\ UndelegationIsSignedByCovMember(btcDel, req.pk)
         THEN Ret("ErrDuplicatedCovenantSig", 358, 0)
    ELSE IF GetStatus(btcDel, tip, wValue, params.CovenantQuorum) # ACTIVE
         THEN Ret("ErrInvalidCovenantSig", 367, 0)
    ELSE Ret("nil", 368, 0)

\* (mutant) signatures are refused once the delegation has a quorum
CovenantSigsGuards_UntilQuorum(req, btcDel, params) ==
    IF ~HasCovenantPK(params, req.pk) THEN Ret("ErrInvalidCovenantPK", 351, 0)
    ELSE IF IsSignedByCovMember(btcDel, req.pk)
            /\ UndelegationIsSignedByCovMember(btcDel, req.pk)
         THEN Ret("ErrDuplicatedCovenantSig", 358, 0)
    ELSE IF GetStatus(btcDel, tip, wValue, params.CovenantQuorum) = UNBONDED
            \/ HasCovenantQuorums(btcDel, params.CovenantQuorum)
         THEN Ret("ErrInvalidCovenantSig", 367, 0)
    ELSE Ret("nil", 368, 0)

\* the checks before the signatures are looked at: the covenant key is in
\* the parameters, the member has not signed yet, the delegation is not
\* unbonded
CovenantSigsGuards(req, btcDel, params) ==
    IF ~HasCovenantPK(params, req.pk) THEN Ret("ErrInvalidCovenantPK", 351, 0)
    ELSE IF IsSignedByCovMember(btcDel, req.pk)
            /\ UndelegationIsSignedByCovMember(btcDel, req.pk)
         THEN Ret("ErrDuplicatedCovenantSig", 358, 0)
    ELSE IF GetStatus(btcDel, tip, wValue, params.CovenantQuorum) = UNBONDED
         THEN Ret("ErrInvalidCovenantSig", 367, 0)
    ELSE Ret("nil", 368, 0)

\* (mutant) the unbonding signature is verified before the number of
\* unbonding-slashing signatures is compared
VerifyCovenantSigs_SchnorrFirst(req, btcDel) ==
    IF Len(req.SlashingTxSigs) # Len(btcDel.FpBtcPkList)
    THEN Ret("ErrInvalidCovenantSig", 373, 0)
    ELSE IF ~ParseEncVerifyAdaptorSignatures(btcDel.FpBtcPkList, req.SlashingTxSigs)
         THEN Ret("ErrInvalidCovenantSig", 399, 1)
    ELSE IF ~VerifyTransactionSigWithOutput(req.UnbondingTxSig)
         THEN Ret("ErrInvalidCovenantSig", 430, 2)
    ELSE IF Len(req.SlashingUnbondingTxSigs) # Len(btcDel.FpBtcPkList)
         THEN Ret("ErrInvalidCovenantSig", 405, 2)
    ELSE IF ~ParseEncVerifyAdaptorSignatures(btcDel.FpBtcPkList, req.SlashingUnbondingTxSigs)
         THEN Ret("ErrInvalidCovenantSig", 455, 3)
    ELSE Ret("nil", 478, 3)

\* the count checks and the three verifications, in the order of the code
VerifyCovenantSigs(req, btcDel) ==
    IF Len(req.SlashingTxSigs) # Len(btcDel.FpBtcPkList)
    THEN Ret("ErrInvalidCovenantSig", 373, 0)
    ELSE IF ~ParseEncVerifyAdaptorSignatures(btcDel.FpBtcPkList, req.SlashingTxSigs)
         THEN Ret("ErrInvalidCovenantSig", 399, 1)
    ELSE IF Len(req.SlashingUnbondingTxSigs) # Len(btcDel.FpBtcPkList)
         THEN Ret("ErrInvalidCovenantSig", 405, 1)
    ELSE IF ~VerifyTransactionSigWithOutput(req.UnbondingTxSig)
         THEN Ret("ErrInvalidCovenantSig", 430, 2)
    ELSE IF ~ParseEncVerifyAdaptorSignatures(btcDel.FpBtcPkList, req.SlashingUnbondingTxSigs)
         THEN Ret("ErrInvalidCovenantSig", 455, 3)
    ELSE Ret("nil", 478, 3)

AddCovenantSigsCheck(req) ==
    IF ~req.basicOk THEN Ret("InvalidArgument", 340, 0)
    ELSE IF GetBTCDelWithParamsCheck(req.hash, 346).err # "nil"
    THEN GetBTCDelWithParamsCheck(req.hash, 346)
    ELSE LET btcDel == dels[req.hash]
             params == ParamsOf(btcDel)
         IN IF CovenantSigsGuards(req, btcDel, params).err # "nil"
            THEN CovenantSigsGuards(req, btcDel, params)
            ELSE VerifyCovenantSigs(req, btcDel)

\* addCovenantSigsToBTCDelegation: the three signature sets of the member
AddCovenantSigsToBTCDelegation(btcDel, pk) ==
    [btcDel EXCEPT !.CovenantSigs = @ \cup {pk},
                   !.CovenantSlashingSigs = @ \cup {pk},
                   !.CovenantUnbondingSigList = @ \cup {pk}]

\* (mutant) the message is indexed as refundable before it is verified
AddCovenantSigs_IndexFirst(req) ==
    LET r == AddCovenantSigsCheck(req) IN
    /\ last' = LastPk("AddCovenantSigs", req.hash, req.pk, r)
    /\ refundable' = IndexRefundableMsg(refundable, "AddCovenantSigs", req.hash, req.pk)
    /\ IF r.err = "nil"
       THEN dels' = [dels EXCEPT ![req.hash] =
                         AddCovenantSigsToBTCDelegation(dels[req.hash], req.pk)]
       ELSE UNCHANGED dels
    /\ UNCHANGED <<fps, paramsStore, tip, wValue, powerDistEvents, gasFees>>

\* (mutant) only the staking-slashing signatures of the member are stored
AddCovenantSigs_SlashingSigsOnly(req) ==
    LET r == AddCovenantSigsCheck(req) IN
    /\ last' = LastPk("AddCovenantSigs", req.hash, req.pk, r)
    /\ IF r.err = "nil"
       THEN /\ dels' = [dels EXCEPT ![req.hash].CovenantSigs = @ \cup {req.pk}]
            /\ refundable' = IndexRefundableMsg(refundable, "AddCovenantSigs", req.hash, req.pk)
       ELSE UNCHANGED <<dels, refundable>>
    /\ UNCHANGED <<fps, paramsStore, tip, wValue, powerDistEvents, gasFees>>

AddCovenantSigs(req) ==
    LET r == AddCovenantSigsCheck(req) IN
    /\ last' = LastPk("AddCovenantSigs", req.hash, req.pk, r)
    /\ IF r.err = "nil"
       THEN /\ dels' = [dels EXCEPT ![req.hash] =
                            AddCovenantSigsToBTCDelegation(dels[req.hash], req.pk)]
            /\ refundable' = IndexRefundableMsg(refundable, "AddCovenantSigs", req.hash, req.pk)
       ELSE UNCHANGED <<dels, refundable>>
    /\ UNCHANGED <<fps, paramsStore, tip, wValue, powerDistEvents, gasFees>>

\* a list of n adaptor signatures, all valid, or all but the last valid
SigList(n, valid) == [i \in 1..n |-> valid \/ i < n]

\* the shapes of a request: the two list lengths and the one signature that
\* does not verify, if any
SigShapes ==
    {t \in (1..MaxFpListLen) \X (1..MaxFpListLen)
            \X {"none", "slashing", "unbonding", "slashingUnbonding"} :
        t[3] = "none" \/ t[1] = t[2]}

AddCovenantSigsReqsOf(hashes, pks) ==
    { [hash |-> h, pk |-> pk, basicOk |-> TRUE,
       SlashingTxSigs |-> SigList(t[1], t[3] # "slashing"),
       UnbondingTxSig |-> (t[3] # "unbonding"),
       SlashingUnbondingTxSigs |-> SigList(t[2], t[3] # "slashingUnbonding")] :
        h \in hashes, pk \in pks, t \in SigShapes }
    \cup
    { [hash |-> h, pk |-> pk, basicOk |-> FALSE,
       SlashingTxSigs |-> << >>, UnbondingTxSig |-> TRUE,
       SlashingUnbondingTxSigs |-> << >>] :
        h \in hashes, pk \in pks }

AddCovenantSigsReqs == AddCovenantSigsReqsOf(TxHashes, CovenantMembers)

(***************************************************************************)
(* BTCUndelegate                                                           *)
(***************************************************************************)
\* (mutant) a pending delegation may be unbonded
UndelegateStatusGuards_NoPendingCheck(btcDelStatus) ==
    IF btcDelStatus = UNBONDED THEN Ret("ErrInvalidBTCUndelegateReq", 510, 0)
    ELSE Ret("nil", 511, 0)

\* (mutant) an unbonded delegation may be unbonded again
UndelegateStatusGuards_PendingOnly(btcDelStatus) ==
    IF btcDelStatus = PENDING THEN Ret("ErrInvalidBTCUndelegateReq", 506, 0)
    ELSE Ret("nil", 511, 0)

\* the delegation is neither pending nor unbonded
UndelegateStatusGuards(btcDelStatus) ==
    IF btcDelStatus = PENDING THEN Ret("ErrInvalidBTCUndelegateReq", 506, 0)
    ELSE IF btcDelStatus = UNBONDED THEN Ret("ErrInvalidBTCUndelegateReq", 510, 0)
    ELSE Ret("nil", 511, 0)

BTCUndelegateCheck(req) ==
    IF ~req.basicOk THEN Ret("InvalidArgument", 490, 0)
    ELSE IF GetBTCDelWithParamsCheck(req.hash, 496).err # "nil"
    THEN GetBTCDelWithParamsCheck(req.hash, 496)
    ELSE LET btcDel == dels[req.hash]
             bsParams == ParamsOf(btcDel)
             btcDelStatus == GetStatus(btcDel, tip, wValue, bsParams.CovenantQuorum)
         IN IF UndelegateStatusGuards(btcDelStatus).err # "nil"
            THEN UndelegateStatusGuards(btcDelStatus)
            ELSE IF ~VerifyTransactionSigWithOutput(req.UnbondingTxSig)
                 THEN Ret("ErrInvalidCovenantSig", 535, 1)
            ELSE Ret("nil", 546, 1)

\* Keeper.btcUndelegate: record the staker's signature on the unbonding tx
BtcUndelegate(btcDel) == [btcDel EXCEPT !.DelegatorUnbondingSig = TRUE]

\* (mutant) the message is indexed as refundable before it is checked
BTCUndelegate_IndexFirst(req) ==
    LET r == BTCUndelegateCheck(req) IN
    /\ last' = Last("BTCUndelegate", req.hash, r)
    /\ refundable' = IndexRefundableMsg(refundable, "BTCUndelegate", req.hash, 0)
    /\ IF r.err = "nil"
       THEN dels' = [dels EXCEPT ![req.hash] = BtcUndelegate(dels[req.hash])]
       ELSE UNCHANGED dels
    /\ UNCHANGED <<fps, paramsStore, tip, wValue, powerDistEvents, gasFees>>

BTCUndelegate(req) ==
    LET r == BTCUndelegateCheck(req) IN
    /\ last' = Last("BTCUndelegate", req.hash, r)
    /\ IF r.err = "nil"
       THEN /\ dels' = [dels EXCEPT ![req.hash] = BtcUndelegate(dels[req.hash])]
            /\ refundable' = IndexRefundableMsg(refundable, "BTCUndelegate", req.hash, 0)
       ELSE UNCHANGED <<dels, refundable>>
    /\ UNCHANGED <<fps, paramsStore, tip, wValue, powerDistEvents, gasFees>>

BTCUndelegateReqs ==
    [hash : TxHashes, basicOk : {TRUE}, UnbondingTxSig : BOOLEAN]
    \cup [hash : TxHashes, basicOk : {FALSE}, UnbondingTxSig : {TRUE}]

(***************************************************************************)
(* SelectiveSlashingEvidence                                               *)
(***************************************************************************)
\* (mutant) only an ACTIVE delegation can be slashed
SlashableStatus_ActiveOnly(btcDel, covQuorum) ==
    GetStatus(btcDel, tip, wValue, covQuorum) = ACTIVE

\* (mutant) every delegation that is not pending can be slashed
SlashableStatus_NotPending(btcDel, covQuorum) ==
    GetStatus(btcDel, tip, wValue, covQuorum) # PENDING

\* the delegation is active, or its undelegation has the staker's signature
SlashableStatus(btcDel, covQuorum) ==
    ~(GetStatus(btcDel, tip, wValue, covQuorum) # ACTIVE /\ ~IsUnbondedEarly(btcDel))

\* (mutant) the delegation's provider list is not consulted
IsStakedTo_Any(btcDel, fpBTCPK) == TRUE

\* the delegation is staked to the finality provider
IsStakedTo(btcDel, fpBTCPK) == GetFpIdx(btcDel, fpBTCPK) # -1

\* (mutant) a finality provider that is already slashed is slashed again
SelectiveSlashingEvidenceCheck_NoSlashedCheck(req) ==
    IF GetBTCDelWithParamsCheck(req.hash, 559).err # "nil"
    THEN GetBTCDelWithParamsCheck(req.hash, 559)
    ELSE LET btcDel == dels[req.hash]
             bsParams == ParamsOf(btcDel)
             covQuorum == bsParams.CovenantQuorum
             fpBTCPK == PrivKeyFromBytes(req.RecoveredFpBtcSk)
         IN IF ~SlashableStatus(btcDel, covQuorum)
            THEN Ret("ErrBTCDelegationNotFound", 568, 0)
            ELSE IF ~IsStakedTo(btcDel, fpBTCPK) THEN Ret("ErrFpNotFound", 578, 0)
            ELSE IF fpBTCPK \notin DOMAIN fps THEN Ret("panic", 584, 0)
            ELSE Ret("nil", 614, 0)

SelectiveSlashingEvidenceCheck(req) ==
    IF GetBTCDelWithParamsCheck(req.hash, 559).err # "nil"
    THEN GetBTCDelWithParamsCheck(req.hash, 559)
    ELSE LET btcDel == dels[req.hash]
             bsParams == ParamsOf(btcDel)
             covQuorum == bsParams.CovenantQuorum
             fpBTCPK == PrivKeyFromBytes(req.RecoveredFpBtcSk)
         IN IF ~SlashableStatus(btcDel, covQuorum)
            THEN Ret("ErrBTCDelegationNotFound", 568, 0)
            ELSE IF ~IsStakedTo(btcDel, fpBTCPK) THEN Ret("ErrFpNotFound", 578, 0)
            ELSE IF fpBTCPK \notin DOMAIN fps THEN Ret("panic", 584, 0)
            ELSE IF fps[fpBTCPK].Slashed THEN Ret("ErrFpAlreadySlashed", 588, 0)
            ELSE Ret("nil", 614, 0)

\* Keeper.SlashFinalityProvider: set the slashed flag of the provider
SlashFinalityProvider(registry, fpBTCPK) ==
    [registry EXCEPT ![fpBTCPK].Slashed = TRUE, ![fpBTCPK].SlashedBtcHeight = tip]

\* (mutant) every finality provider of the delegation is slashed
SelectiveSlashingEvidence_WholeList(req) ==
    LET r == SelectiveSlashingEvidenceCheck(req)
        fpBTCPK == PrivKeyFromBytes(req.RecoveredFpBtcSk)
    IN
    /\ last' = LastPk("SelectiveSlashingEvidence", req.hash, fpBTCPK, r)
    /\ IF r.err = "nil"
       THEN /\ fps' = [q \in DOMAIN fps |->
                         IF \E i \in DOMAIN dels[req.hash].FpBtcPkList :
                              dels[req.hash].FpBtcPkList[i] = q
                         THEN SlashFinalityProvider(fps, q)[q]
                         ELSE fps[q]]
            /\ refundable' = IndexRefundableMsg(refundable, "SelectiveSlashingEvidence", req.hash, fpBTCPK)
       ELSE UNCHANGED <<fps, refundable>>
    /\ UNCHANGED <<dels, paramsStore, tip, wValue, powerDistEvents, gasFees>>

SelectiveSlashingEvidence(req) ==
    LET r == SelectiveSlashingEvidenceCheck(req)
        fpBTCPK == PrivKeyFromBytes(req.RecoveredFpBtcSk)
    IN
    /\ last' = LastPk("SelectiveSlashingEvidence", req.hash, fpBTCPK, r)
    /\ IF r.err = "nil"
       THEN /\ fps' = SlashFinalityProvider(fps, fpBTCPK)
            /\ refundable' = IndexRefundableMsg(refundable, "SelectiveSlashingEvidence", req.hash, fpBTCPK)
       ELSE UNCHANGED <<fps, refundable>>
    /\ UNCHANGED <<dels, paramsStore, tip, wValue, powerDistEvents, gasFees>>

SelectiveSlashingEvidenceReqs == [hash : TxHashes, RecoveredFpBtcSk : FpSks]

Next ==
    \/ AdvanceTip
    \/ \E req \in UpdateParamsReqs : UpdateParams(req)
    \/ \E req \in CreateFinalityProviderReqs : CreateFinalityProvider(req)
    \/ \E req \in EditFinalityProviderReqs : EditFinalityProvider(req)
    \/ \E req \in CreateBTCDelegationReqs : CreateBTCDelegation(req)
    \/ \E req \in AddBTCDelegationInclusionProofReqs : AddBTCDelegationInclusionProof(req)
    \/ \E req \in AddCovenantSigsReqs : AddCovenantSigs(req)
    \/ \E req \in BTCUndelegateReqs : BTCUndelegate(req)
    \/ \E req \in SelectiveSlashingEvidenceReqs : SelectiveSlashingEvidence(req)

Spec == Init /\ [][Next]_vars

(***************************************************************************)
(* Two delegations.  The messages are well formed and their signatures     *)
(* verify; what varies is the order of the messages of the two staking     *)
(* transactions, their finality-provider lists and the state of the        *)
(* registry when they arrive.                                              *)
(***************************************************************************)
PairTxHashes == {1, 2}

PairFpLists == {<<PrivKeyFromBytes(1)>>, <<PrivKeyFromBytes(2), PrivKeyFromBytes(1)>>}

PairCreateFinalityProviderReqs ==
    [btcPk : FpPks, addr : Addrs, description : {"d0"}, commission : {OneDec},
     fault : {"none"}]

PairCreateBTCDelegationReqs ==
    [hash : PairTxHashes, fpList : PairFpLists, stakingTime : {2},
     fault : {"none"}, proof : {NoProof}]

PairAddBTCDelegationInclusionProofReqs ==
    [hash : PairTxHashes, proof : Proofs({"none"})]

PairAddCovenantSigsReqs ==
    { [hash |-> h, pk |-> 1, basicOk |-> TRUE,
       SlashingTxSigs |-> SigList(n, TRUE),
       UnbondingTxSig |-> TRUE,
       SlashingUnbondingTxSigs |-> SigList(n, TRUE)] :
        h \in PairTxHashes, n \in 1..MaxFpListLen }

PairBTCUndelegateReqs ==
    [hash : PairTxHashes, basicOk : {TRUE}, UnbondingTxSig : {TRUE}]

PairSelectiveSlashingEvidenceReqs == [hash : PairTxHashes, RecoveredFpBtcSk : FpSks]

NextPair ==
    \/ AdvanceTip
    \/ \E req \in PairCreateFinalityProviderReqs : CreateFinalityProvider(req)
    \/ \E req \in PairCreateBTCDelegationReqs : CreateBTCDelegation(req)
    \/ \E req \in PairAddBTCDelegationInclusionProofReqs : AddBTCDelegationInclusionProof(req)
    \/ \E req \in PairAddCovenantSigsReqs : AddCovenantSigs(req)
    \/ \E req \in PairBTCUndelegateReqs : BTCUndelegate(req)
    \/ \E req \in PairSelectiveSlashingEvidenceReqs : SelectiveSlashingEvidence(req)

SpecPair == Init /\ [][NextPair]_vars

(***************************************************************************)
(* The finality-provider registry in detail.  Providers register under     *)
(* addresses written in lower or in upper case and are edited by every     *)
(* signer with every commission between below the minimum and above 1,     *)
(* while one delegation goes through its life and the first provider can   *)
(* be slashed.                                                             *)
(***************************************************************************)
FpAddrs == {"bbn1a", "BBN1A", "bbn1b", "bbn1A"}

FpCommissions == 0..(OneDec + 1)

FpDescriptions == {"d0", "d1"}

FpCreateFinalityProviderReqs ==
    [btcPk : {PrivKeyFromBytes(1)}, addr : {"bbn1a", "BBN1A"}, description : {"d0"},
     commission : {1}, fault : {"none"}]
    \cup [btcPk : {PrivKeyFromBytes(2)}, addr : {"bbn1b"}, description : {"d0"},
          commission : {OneDec}, fault : {"none"}]

FpEditFinalityProviderReqs ==
    [btcPk : {PrivKeyFromBytes(1)}, addr : FpAddrs, description : FpDescriptions,
     commission : FpCommissions, basicOk : {TRUE}]
    \cup [btcPk : {PrivKeyFromBytes(2)}, addr : {"bbn1a", "bbn1b"}, description : {"d1"},
          commission : {OneDec}, basicOk : BOOLEAN]

FpUpdateParamsReqs == [authority : {Authority}, valid : {TRUE}, params : ParamChoices]

FpCreateBTCDelegationReqs ==
    [hash : TxHashes, fpList : {<<PrivKeyFromBytes(1)>>}, stakingTime : {2},
     fault : {"none"}, proof : Proofs({"none"})]
    \cup [hash : TxHashes, fpList : {<<PrivKeyFromBytes(1)>>}, stakingTime : {2},
          fault : {"parse", "pop", "params"}, proof : {NoProof}]

FpAddCovenantSigsReqs ==
    { [hash |-> h, pk |-> pk, basicOk |-> TRUE,
       SlashingTxSigs |-> SigList(1, TRUE),
       UnbondingTxSig |-> TRUE,
       SlashingUnbondingTxSigs |-> SigList(1, TRUE)] :
        h \in TxHashes, pk \in CovenantMembers }

FpSelectiveSlashingEvidenceReqs == [hash : TxHashes, RecoveredFpBtcSk : {1}]

NextFp ==
    \/ AdvanceTip
    \/ \E req \in FpUpdateParamsReqs : UpdateParams(req)
    \/ \E req \in FpCreateFinalityProviderReqs : CreateFinalityProvider(req)
    \/ \E req \in FpEditFinalityProviderReqs : EditFinalityProvider(req)
    \/ \E req \in FpCreateBTCDelegationReqs : CreateBTCDelegation(req)
    \/ \E req \in FpAddCovenantSigsReqs : AddCovenantSigs(req)
    \/ \E req \in FpSelectiveSlashingEvidenceReqs : SelectiveSlashingEvidence(req)

SpecFp == Init /\ [][NextFp]_vars

(***************************************************************************)
(* The derived status of a stored delegation at the current tip, under the *)
(* covenant quorum of the delegation's parameter version.                  *)
(***************************************************************************)
StatusIn(ds, t, h) ==
    GetStatus(ds[h], t, wValue, GetParamsByVersion(ds[h].ParamsVersion).CovenantQuorum)

Status(h) == StatusIn(dels, tip, h)

(***************************************************************************)
(* C1: a CreateBTCDelegation for a staking-tx hash that already has a      *)
(* stored delegation is rejected with an error (never a success, never a   *)
(* fault), whatever its other fields, and the store is left as it was.     *)
(***************************************************************************)
C1_DuplicateStakingTxRejected ==
    [][(last'.op = "CreateBTCDelegation" /\ last'.hash \in DOMAIN dels)
        => /\ last'.err \in {"InvalidArgument", "ErrInvalidProofOfPossession",
                             "ErrReusedStakingTx"}
           /\ dels' = dels]_vars

C1_Witness ==
    /\ last.op = "CreateBTCDelegation"
    /\ last.err = "ErrReusedStakingTx"
    /\ last.hash \in DOMAIN dels

(***************************************************************************)
(* C2: the heights of a stored delegation are both zero until an inclusion *)
(* proof has been verified for it, by CreateBTCDelegation or by            *)
(* AddBTCDelegationInclusionProof, and from then on StartHeight is the     *)
(* verified height and EndHeight = StartHeight + StakingTime.              *)
(***************************************************************************)
C2_Heights ==
    [][\A h \in DOMAIN dels' :
         LET d == dels'[h] IN
         /\ d.StartHeight = 0 => d.EndHeight = 0
         /\ d.StartHeight # 0 => d.EndHeight = d.StartHeight + d.StakingTime
         /\ (d.StartHeight # 0 /\ (h \notin DOMAIN dels \/ dels[h].StartHeight = 0))
              => /\ last'.op \in {"CreateBTCDelegation", "AddBTCDelegationInclusionProof"}
                 /\ last'.hash = h
                 /\ last'.err = "nil"
                 /\ last'.height = d.StartHeight]_vars

C2_Witness ==
    /\ last.op = "AddBTCDelegationInclusionProof"
    /\ last.err = "nil"
    /\ dels[last.hash].StartHeight = last.height
    /\ dels[last.hash].EndHeight = last.height + dels[last.hash].StakingTime
    /\ dels[last.hash].StakingTime > 1

(***************************************************************************)
(* C3: a delegation whose derived status is UNBONDED is UNBONDED after     *)
(* every step, so it never derives ACTIVE (nor PENDING) again.             *)
(***************************************************************************)
C3_UnbondedNeverActive ==
    [][\A h \in DOMAIN dels :
         Status(h) = UNBONDED => StatusIn(dels', tip', h) = UNBONDED]_vars

C3_Witness ==
    /\ last.op = "AddBTCDelegationInclusionProof"
    /\ last.line = 249
    /\ ~dels[last.hash].DelegatorUnbondingSig
    /\ Status(last.hash) = UNBONDED

(***************************************************************************)
(* C4: the signatures of a covenant member are recorded at most once per   *)
(* delegation.  Once AddCovenantSigs of member m on delegation d has       *)
(* succeeded, m stays recorded on d, and every later AddCovenantSigs of m  *)
(* on d that passes the stateless ValidateBasic returns                    *)
(* ErrDuplicatedCovenantSig at line 358 with no cryptographic verification *)
(* run; a request that fails ValidateBasic is rejected even earlier.  In   *)
(* both cases d is unchanged.                                              *)
(***************************************************************************)
C4_DuplicateCovenantSig ==
    [][/\ \A h \in DOMAIN dels : dels[h].CovenantSigs \subseteq dels'[h].CovenantSigs
       /\ (last'.op = "AddCovenantSigs" /\ last'.err = "nil")
            => last'.pk \in dels'[last'.hash].CovenantSigs
       /\ (last'.op = "AddCovenantSigs" /\ last'.hash \in DOMAIN dels
              /\ last'.pk \in dels[last'.hash].CovenantSigs)
            => /\ \/ last'.err = "ErrDuplicatedCovenantSig" /\ last'.line = 358
                  \/ last'.err = "InvalidArgument" /\ last'.line = 340
               /\ last'.crypto = 0
               /\ dels' = dels]_vars

C4_Witness ==
    /\ last.op = "AddCovenantSigs"
    /\ last.err = "ErrDuplicatedCovenantSig"
    /\ last.crypto = 0
    /\ last.pk \in dels[last.hash].CovenantSigs

(***************************************************************************)
(* C5 as stated: a request whose number of staking-slashing or of          *)
(* unbonding-slashing adaptor signatures differs from the number of        *)
(* finality providers is rejected before any cryptographic verification.   *)
(***************************************************************************)
CountMismatch(req) ==
    \/ Len(req.SlashingTxSigs) # Len(dels[req.hash].FpBtcPkList)
    \/ Len(req.SlashingUnbondingTxSigs) # Len(dels[req.hash].FpBtcPkList)

C5_Original ==
    \A req \in AddCovenantSigsReqs :
        (req.hash \in DOMAIN dels /\ CountMismatch(req))
          => /\ AddCovenantSigsCheck(req).err # "nil"
             /\ AddCovenantSigsCheck(req).crypto = 0

(***************************************************************************)
(* C5 as amended: a count mismatch is always rejected.  A wrong number of  *)
(* staking-slashing signatures is rejected before any cryptographic        *)
(* verification.  A wrong number of unbonding-slashing signatures (the     *)
(* staking-slashing count being right) is rejected before the Schnorr      *)
(* verification of the unbonding signature and before the verification of  *)
(* the unbonding-slashing adaptor signatures, but after the                *)
(* staking-slashing adaptor signatures have been verified: at most that    *)
(* one verification has run.                                               *)
(***************************************************************************)
C5_CountMismatchRejected ==
    /\ \A req \in AddCovenantSigsReqs :
         (req.hash \in DOMAIN dels /\ CountMismatch(req))
           => LET r == AddCovenantSigsCheck(req)
                  n == Len(dels[req.hash].FpBtcPkList)
              IN /\ r.err # "nil"
                 /\ Len(req.SlashingTxSigs) # n => r.crypto = 0
                 /\ Len(req.SlashingTxSigs) = n => r.crypto <= 1
    /\ (last.op = "AddCovenantSigs" /\ last.line = 373) => last.crypto = 0
    /\ (last.op = "AddCovenantSigs" /\ last.line = 405) => last.crypto = 1

C5_Witness ==
    /\ last.op = "AddCovenantSigs"
    /\ last.line = 405
    /\ last.crypto = 1
    /\ last.err = "ErrInvalidCovenantSig"

(***************************************************************************)
(* C6: for a delegation with an inclusion proof, a covenant quorum and no  *)
(* staker unbonding signature the derived status is ACTIVE exactly when    *)
(* tip < EndHeight - w and UNBONDED exactly when tip >= EndHeight - w.  A  *)
(* successful AddBTCDelegationInclusionProof of height H sets              *)
(* StartHeight = H and EndHeight = H + StakingTime, and an ACTIVE          *)
(* delegation is UNBONDED after the step that takes the tip to             *)
(* H + StakingTime - w.                                                    *)
(***************************************************************************)
Proven(d) ==
    /\ HasInclusionProof(d)
    /\ HasCovenantQuorums(d, GetParamsByVersion(d.ParamsVersion).CovenantQuorum)
    /\ ~d.DelegatorUnbondingSig

C6_ActiveWindow ==
    [][\A h \in DOMAIN dels' :
         LET d == dels'[h] IN
         /\ Proven(d) =>
              /\ StatusIn(dels', tip', h) = ACTIVE <=> tip' < d.EndHeight - wValue'
              /\ StatusIn(dels', tip', h) = UNBONDED <=> tip' >= d.EndHeight - wValue'
         /\ (last'.op = "AddBTCDelegationInclusionProof" /\ last'.err = "nil"
               /\ last'.hash = h)
              => /\ d.StartHeight = last'.height
                 /\ d.EndHeight = last'.height + d.StakingTime
         /\ (h \in DOMAIN dels /\ Status(h) = ACTIVE
               /\ tip' >= d.StartHeight + d.StakingTime - wValue')
              => StatusIn(dels', tip', h) = UNBONDED]_vars

C6_Witness ==
    /\ last.op = "AdvanceTip"
    /\ \E h \in DOMAIN dels :
         /\ Proven(dels[h])
         /\ tip = dels[h].StartHeight + dels[h].StakingTime - wValue
         /\ Status(h) = UNBONDED

(***************************************************************************)
(* C7: a successful BTCUndelegate records the staker's unbonding           *)
(* signature; with it the derived status is UNBONDED at every tip height,  *)
(* and SelectiveSlashingEvidence for every not yet slashed finality        *)
(* provider of the delegation's list is accepted.                          *)
(***************************************************************************)
InFpList(d, sk) == \E i \in DOMAIN d.FpBtcPkList : d.FpBtcPkList[i] = PrivKeyFromBytes(sk)

C7_UnbondedEarlySlashable ==
    [][/\ (last'.op = "BTCUndelegate" /\ last'.err = "nil")
            => dels'[last'.hash].DelegatorUnbondingSig
       /\ \A h \in DOMAIN dels' :
            dels'[h].DelegatorUnbondingSig =>
              /\ \A t \in 0..(MaxTip + 3) :
                    StatusIn(dels', t, h) = UNBONDED
              /\ \A req \in SelectiveSlashingEvidenceReqs :
                    (req.hash = h /\ InFpList(dels'[h], req.RecoveredFpBtcSk))
                      => /\ PrivKeyFromBytes(req.RecoveredFpBtcSk) \in DOMAIN fps'
                         /\ ~fps'[PrivKeyFromBytes(req.RecoveredFpBtcSk)].Slashed
                              => (SelectiveSlashingEvidenceCheck(req))'.err = "nil"]_vars

C7_Witness ==
    /\ last.op = "SelectiveSlashingEvidence"
    /\ last.err = "nil"
    /\ dels[last.hash].DelegatorUnbondingSig
    /\ tip < dels[last.hash].EndHeight - wValue

(***************************************************************************)
(* C8: SelectiveSlashingEvidence whose recovered key is the key of a       *)
(* finality provider that is not in the delegation's provider list is      *)
(* rejected with a not-found error, and a rejected evidence leaves the     *)
(* finality-provider registry unchanged.                                   *)
(***************************************************************************)
C8_SlashingNotInList ==
    [][/\ \A req \in SelectiveSlashingEvidenceReqs :
            (req.hash \in DOMAIN dels /\ ~InFpList(dels[req.hash], req.RecoveredFpBtcSk))
              => SelectiveSlashingEvidenceCheck(req).err
                    \in {"ErrBTCDelegationNotFound", "ErrFpNotFound"}
       /\ (last'.op = "SelectiveSlashingEvidence" /\ last'.err # "nil")
            => fps' = fps]_vars

C8_Witness ==
    /\ last.op = "SelectiveSlashingEvidence"
    /\ last.err = "ErrFpNotFound"
    /\ last.line = 578
    /\ \E sk \in FpSks :
         /\ PrivKeyFromBytes(sk) \in DOMAIN fps
         /\ ~fps[PrivKeyFromBytes(sk)].Slashed
         /\ last.pk = PrivKeyFromBytes(sk)
         /\ ~InFpList(dels[last.hash], sk)

(***************************************************************************)
(* C9: when one of the five transitions returns an error, the delegation   *)
(* store, the finality-provider registry, the power-distribution event log *)
(* and the refundable-message index are what they were before the call.    *)
(***************************************************************************)
Transitions ==
    {"CreateBTCDelegation", "AddBTCDelegationInclusionProof", "AddCovenantSigs",
     "BTCUndelegate", "SelectiveSlashingEvidence"}

C9_AllOrNothing ==
    [][(last'.op \in Transitions /\ last'.err # "nil")
        => /\ dels' = dels
           /\ fps' = fps
           /\ powerDistEvents' = powerDistEvents
           /\ refundable' = refundable]_vars

C9_Witness ==
    /\ last.op = "AddCovenantSigs"
    /\ last.err = "ErrInvalidCovenantSig"
    /\ last.crypto = 3
    /\ dels[last.hash].CovenantSigs = {}
    /\ refundable = EmptyBag

(***************************************************************************)
(* C10: AddBTCDelegationInclusionProof succeeds only on a delegation that  *)
(* has no inclusion proof, has a covenant quorum under its own parameter   *)
(* version and has no staker unbonding signature; otherwise the request is *)
(* rejected and the heights stay as they were.                             *)
(***************************************************************************)
C10_InclusionProofGuards ==
    [][(last'.op = "AddBTCDelegationInclusionProof" /\ last'.hash \in DOMAIN dels)
        => LET d == dels[last'.hash]
               ok == /\ ~HasInclusionProof(d)
                     /\ HasCovenantQuorums(d, GetParamsByVersion(d.ParamsVersion).CovenantQuorum)
                     /\ ~d.DelegatorUnbondingSig
           IN /\ last'.err = "nil" => ok
              /\ ~ok => /\ last'.err # "nil"
                        /\ dels'[last'.hash].StartHeight = d.StartHeight
                        /\ dels'[last'.hash].EndHeight = d.EndHeight]_vars

C10_Witness ==
    /\ last.op = "AddBTCDelegationInclusionProof"
    /\ last.line = 254
    /\ dels[last.hash].StartHeight = 0
    /\ dels[last.hash].EndHeight = 0

(***************************************************************************)
(* C11 as stated: a successful AddBTCDelegationInclusionProof appends      *)
(* exactly two events for the delegation, an ACTIVE event indexed at the   *)
(* verified inclusion height (the new StartHeight) and an UNBONDED event   *)
(* indexed at EndHeight - w.                                               *)
(***************************************************************************)
PowerDistEvent(height, hash, state) == [height |-> height, hash |-> hash, state |-> state]

ProofAccepted ==
    last'.op = "AddBTCDelegationInclusionProof" /\ last'.err = "nil"

C11_Original ==
    [][ProofAccepted =>
         LET d == dels'[last'.hash] IN
         powerDistEvents' = powerDistEvents \o
             << PowerDistEvent(d.StartHeight, last'.hash, ACTIVE),
                PowerDistEvent(d.EndHeight - wValue, last'.hash, UNBONDED) >>]_vars

(***************************************************************************)
(* C11 as amended: a successful AddBTCDelegationInclusionProof appends     *)
(* exactly two events for the delegation, an ACTIVE event indexed at the   *)
(* height of the BTC tip when the message is handled, which is at least    *)
(* the verified inclusion height, and an UNBONDED event indexed at         *)
(* EndHeight - w.                                                          *)
(***************************************************************************)
C11_InclusionProofEvents ==
    [][ProofAccepted =>
         LET d == dels'[last'.hash] IN
         /\ d.StartHeight = last'.height
         /\ d.StartHeight <= tip
         /\ powerDistEvents' = powerDistEvents \o
             << PowerDistEvent(tip, last'.hash, ACTIVE),
                PowerDistEvent(d.EndHeight - wValue, last'.hash, UNBONDED) >>]_vars

C11_Witness ==
    /\ last.op = "AddBTCDelegationInclusionProof"
    /\ last.err = "nil"
    /\ Len(powerDistEvents) = 2
    /\ dels[last.hash].StartHeight < tip
    /\ powerDistEvents[1] = PowerDistEvent(tip, last.hash, ACTIVE)
    /\ powerDistEvents[2] =
         PowerDistEvent(dels[last.hash].EndHeight - wValue, last.hash, UNBONDED)

(***************************************************************************)
(* C12: BTCUndelegate succeeds only on a delegation whose derived status   *)
(* at the current tip is ACTIVE.  On a PENDING delegation and on an        *)
(* UNBONDED one (by height or by an earlier unbonding signature) it        *)
(* returns ErrInvalidBTCUndelegateReq (a message that fails the stateless  *)
(* ValidateBasic is rejected before the delegation is read), and the       *)
(* delegation store is left as it was: no unbonding signature is recorded. *)
(***************************************************************************)
StateConflict(line) ==
    \/ last'.err = "ErrInvalidBTCUndelegateReq" /\ last'.line = line
    \/ last'.err = "InvalidArgument" /\ last'.line = 490

C12_UndelegateOnlyActive ==
    [][(last'.op = "BTCUndelegate" /\ last'.hash \in DOMAIN dels) =>
         LET h == last'.hash IN
         /\ last'.err = "nil" =>
              /\ Status(h) = ACTIVE
              /\ ~dels[h].DelegatorUnbondingSig
              /\ dels'[h].DelegatorUnbondingSig
         /\ Status(h) = PENDING => (StateConflict(506) /\ dels' = dels)
         /\ Status(h) = UNBONDED => (StateConflict(510) /\ dels' = dels)]_vars

C12_Witness ==
    /\ last.op = "BTCUndelegate"
    /\ last.err = "ErrInvalidBTCUndelegateReq"
    /\ last.line = 506
    /\ Status(last.hash) = PENDING
    /\ ~dels[last.hash].DelegatorUnbondingSig

(***************************************************************************)
(* C13: a finality provider becomes slashed only by an accepted            *)
(* SelectiveSlashingEvidence, and the evidence is accepted only if the     *)
(* target delegation is ACTIVE at the current tip or has the staker's      *)
(* unbonding signature, the public key of the recovered secret key is in   *)
(* the delegation's provider list, and that provider is not slashed yet.   *)
(* Then exactly that provider becomes slashed: every other record of the   *)
(* registry is what it was.                                                *)
(***************************************************************************)
C13_SlashingGuards ==
    [][/\ (last'.op = "SelectiveSlashingEvidence" /\ last'.err = "nil") =>
            LET h == last'.hash
                pk == last'.pk
            IN /\ h \in DOMAIN dels
               /\ Status(h) = ACTIVE \/ dels[h].DelegatorUnbondingSig
               /\ \E i \in DOMAIN dels[h].FpBtcPkList : dels[h].FpBtcPkList[i] = pk
               /\ pk \in DOMAIN fps
               /\ ~fps[pk].Slashed
               /\ fps'[pk].Slashed
               /\ DOMAIN fps' = DOMAIN fps
               /\ \A q \in DOMAIN fps \ {pk} : fps'[q] = fps[q]
       /\ \A q \in DOMAIN fps :
            (~fps[q].Slashed /\ fps'[q].Slashed) =>
               /\ last'.op = "SelectiveSlashingEvidence"
               /\ last'.err = "nil"
               /\ last'.pk = q]_vars

C13_Witness ==
    /\ last.op = "SelectiveSlashingEvidence"
    /\ last.err = "nil"
    /\ Status(last.hash) = ACTIVE
    /\ Len(dels[last.hash].FpBtcPkList) = 2
    /\ dels[last.hash].FpBtcPkList[2] = last.pk
    /\ fps[last.pk].Slashed
    /\ ~fps[dels[last.hash].FpBtcPkList[1]].Slashed

(***************************************************************************)
(* C14: while a delegation is UNBONDED at the current tip (by height or by *)
(* the staker's unbonding signature) every AddCovenantSigs on it is        *)
(* rejected, a member that has not signed yet with ErrInvalidCovenantSig   *)
(* at line 367 unless the message is turned away before the status is      *)
(* looked at (ValidateBasic, covenant key not in the parameters), and no   *)
(* step records a covenant signature on it.                                *)
(***************************************************************************)
CovSigSets(d) == <<d.CovenantSigs, d.CovenantSlashingSigs, d.CovenantUnbondingSigList>>

C14_NoCovenantSigsWhenUnbonded ==
    [][\A h \in DOMAIN dels :
         Status(h) = UNBONDED =>
           /\ CovSigSets(dels'[h]) = CovSigSets(dels[h])
           /\ (last'.op = "AddCovenantSigs" /\ last'.hash = h) =>
                /\ last'.err # "nil"
                /\ (last'.pk \notin dels[h].CovenantSigs
                      /\ last'.pk \in GetParamsByVersion(dels[h].ParamsVersion).CovenantPks
                      /\ last'.line # 340)
                     => (last'.err = "ErrInvalidCovenantSig" /\ last'.line = 367)]_vars

C14_Witness ==
    /\ last.op = "AddCovenantSigs"
    /\ last.err = "ErrInvalidCovenantSig"
    /\ last.line = 367
    /\ last.pk \notin dels[last.hash].CovenantSigs
    /\ ~dels[last.hash].DelegatorUnbondingSig
    /\ Status(last.hash) = UNBONDED

(***************************************************************************)
(* C15: a delegation records the parameter version that was the latest     *)
(* when it was created, the version and the stored parameters of a version *)
(* never change, and the handlers judge the delegation by that version,    *)
(* not by the latest one: AddCovenantSigs returns ErrInvalidCovenantPK     *)
(* exactly for the keys outside the covenant key set of the delegation's   *)
(* version, and AddBTCDelegationInclusionProof returns ErrNoCovenantQuorum *)
(* exactly when the delegation has no proof yet and fewer signatures than  *)
(* the quorum of its version.                                              *)
(***************************************************************************)
CreationParams(d) == paramsStore[d.ParamsVersion + 1]

C15_ParamsVersionBinding ==
    [][/\ \A v \in DOMAIN paramsStore : paramsStore'[v] = paramsStore[v]
       /\ \A h \in DOMAIN dels' :
            IF h \in DOMAIN dels
            THEN dels'[h].ParamsVersion = dels[h].ParamsVersion
            ELSE dels'[h].ParamsVersion = Len(paramsStore) - 1
       /\ (last'.op = "AddCovenantSigs" /\ last'.hash \in DOMAIN dels /\ last'.line # 340) =>
            LET d == dels[last'.hash] IN
            /\ last'.err = "ErrInvalidCovenantPK" <=> last'.pk \notin CreationParams(d).CovenantPks
            /\ last'.err = "nil" => last'.pk \in CreationParams(d).CovenantPks
       /\ (last'.op = "AddBTCDelegationInclusionProof" /\ last'.hash \in DOMAIN dels) =>
            LET d == dels[last'.hash] IN
            /\ last'.err = "ErrNoCovenantQuorum" <=>
                 /\ d.StartHeight = 0
                 /\ Cardinality(d.CovenantSigs) < CreationParams(d).CovenantQuorum
            /\ last'.err = "nil" =>
                 Cardinality(d.CovenantSigs) >= CreationParams(d).CovenantQuorum]_vars

C15_Witness ==
    /\ Len(paramsStore) = 2
    /\ last.op = "AddCovenantSigs"
    /\ last.err = "nil"
    /\ dels[last.hash].ParamsVersion = 0
    /\ last.pk \in paramsStore[1].CovenantPks
    /\ last.pk \notin paramsStore[2].CovenantPks
    /\ paramsStore[1].CovenantQuorum # paramsStore[2].CovenantQuorum

(***************************************************************************)
(* C16: a CreateBTCDelegation that names a finality provider unknown to    *)
(* the registry or already slashed is rejected and stores nothing; for a   *)
(* staking transaction not seen before the error is ErrFpNotFound or       *)
(* ErrFpAlreadySlashed.  So a creation that succeeds names only registered *)
(* providers that are not slashed, and none naming a slashed provider      *)
(* succeeds afterwards.                                                    *)
(***************************************************************************)
NamesBadProvider(fpList) ==
    \E i \in DOMAIN fpList : fpList[i] \notin DOMAIN fps \/ fps[fpList[i]].Slashed

C16_CreateNeedsGoodProviders ==
    [][/\ \A req \in PairCreateBTCDelegationReqs :
            NamesBadProvider(req.fpList) =>
              /\ CreateBTCDelegationCheck(req).err # "nil"
              /\ req.hash \notin DOMAIN dels =>
                   CreateBTCDelegationCheck(req).err \in {"ErrFpNotFound", "ErrFpAlreadySlashed"}
       /\ (last'.op = "CreateBTCDelegation" /\ last'.err = "nil") =>
            /\ last'.hash \notin DOMAIN dels
            /\ last'.hash \in DOMAIN dels'
            /\ ~NamesBadProvider(dels'[last'.hash].FpBtcPkList)
       /\ (last'.op = "CreateBTCDelegation" /\ last'.err # "nil") => dels' = dels]_vars

C16_Witness ==
    /\ last.op = "CreateBTCDelegation"
    /\ last.err = "ErrFpAlreadySlashed"
    /\ last.line = 159
    /\ last.hash \notin DOMAIN dels
    /\ \E pk \in DOMAIN fps : fps[pk].Slashed

(***************************************************************************)
(* C17: a CreateBTCDelegation that succeeds with an inclusion proof in the *)
(* message stores the delegation with StartHeight the verified height and  *)
(* consumes no creation fee; one that succeeds without a proof consumes    *)
(* the creation fee once and stores StartHeight = EndHeight = 0; one that  *)
(* is rejected consumes no creation fee and stores nothing.  No other      *)
(* message consumes the creation fee.                                      *)
(***************************************************************************)
C17_CreationFee ==
    [][IF last'.op = "CreateBTCDelegation"
       THEN IF last'.err = "nil"
            THEN LET d == dels'[last'.hash] IN
                 IF last'.height # 0
                 THEN /\ d.StartHeight = last'.height
                      /\ d.EndHeight = last'.height + d.StakingTime
                      /\ gasFees' = gasFees
                 ELSE /\ d.StartHeight = 0
                      /\ d.EndHeight = 0
                      /\ gasFees' = gasFees + 1
            ELSE gasFees' = gasFees /\ dels' = dels
       ELSE gasFees' = gasFees]_vars

C17_Witness ==
    /\ last.op = "CreateBTCDelegation"
    /\ last.err = "nil"
    /\ last.height # 0
    /\ dels[last.hash].StartHeight = last.height
    /\ gasFees = 0

(***************************************************************************)
(* C18 as stated: a slashed finality provider stays slashed under every    *)
(* step, EditFinalityProvider included, and a SelectiveSlashingEvidence    *)
(* for a provider that is already slashed is rejected as already slashed.  *)
(***************************************************************************)
SlashedStaysSlashed ==
    \A q \in DOMAIN fps :
        /\ q \in DOMAIN fps'
        /\ fps[q].Slashed => fps'[q].Slashed

EvidenceForSlashed ==
    /\ last'.op = "SelectiveSlashingEvidence"
    /\ last'.pk \in DOMAIN fps
    /\ fps[last'.pk].Slashed

C18_Original ==
    [][/\ SlashedStaysSlashed
       /\ EvidenceForSlashed => last'.err = "ErrFpAlreadySlashed"]_vars

(***************************************************************************)
(* C18 as amended: a slashed finality provider stays slashed under every   *)
(* step, EditFinalityProvider included, and a SelectiveSlashingEvidence    *)
(* for a provider that is already slashed is always rejected and leaves    *)
(* the registry as it was: as already slashed when the target delegation   *)
(* is ACTIVE or has the staker's unbonding signature and lists the         *)
(* provider, and otherwise by the not-found errors of the checks that come *)
(* before.                                                                 *)
(***************************************************************************)
C18_SlashingIsPermanent ==
    [][/\ SlashedStaysSlashed
       /\ EvidenceForSlashed =>
            LET h == last'.hash
                pk == last'.pk
                Slashable == /\ h \in DOMAIN dels
                             /\ Status(h) = ACTIVE \/ dels[h].DelegatorUnbondingSig
                             /\ \E i \in DOMAIN dels[h].FpBtcPkList : dels[h].FpBtcPkList[i] = pk
            IN /\ fps' = fps
               /\ IF Slashable
                  THEN last'.err = "ErrFpAlreadySlashed" /\ last'.line = 588
                  ELSE last'.err \in {"ErrBTCDelegationNotFound", "ErrFpNotFound"}]_vars

C18_Witness ==
    /\ last.op = "SelectiveSlashingEvidence"
    /\ last.err = "ErrFpAlreadySlashed"
    /\ fps[last.pk].Slashed
    /\ fps[last.pk].Description = "d1"
    /\ fps[last.pk].Commission = OneDec

(***************************************************************************)
(* C19: EditFinalityProvider succeeds only for a registered provider and a *)
(* signer address that denotes the account the provider registered         *)
(* (whichever of lower or upper case either is written in).  A successful  *)
(* edit changes at most the description and the commission of that         *)
(* provider: its key, address, slashed flag and slashing height, every     *)
(* other provider and every delegation are what they were.  A rejected     *)
(* edit changes nothing.                                                   *)
(***************************************************************************)
\* the account a bech32 string denotes; a string in mixed case denotes none
Account(s) ==
    IF s \in {"bbn1a", "BBN1A"} THEN "a"
    ELSE IF s = "bbn1b" THEN "b"
    ELSE IF s = "bbn1" THEN "c"
    ELSE "none"

SameAccount(s, t) == Account(s) # "none" /\ Account(s) = Account(t)

C19_EditFrame ==
    /\ [](\A req \in FpEditFinalityProviderReqs :
            EditFinalityProviderCheck(req).err = "nil" =>
              /\ req.btcPk \in DOMAIN fps
              /\ SameAccount(req.addr, fps[req.btcPk].Addr))
    /\ [][last'.op = "EditFinalityProvider" =>
            /\ dels' = dels
            /\ DOMAIN fps' = DOMAIN fps
            /\ \A q \in DOMAIN fps :
                 IF q = last'.pk /\ last'.err = "nil"
                 THEN /\ fps'[q].Addr = fps[q].Addr
                      /\ fps'[q].Slashed = fps[q].Slashed
                      /\ fps'[q].SlashedBtcHeight = fps[q].SlashedBtcHeight
                 ELSE fps'[q] = fps[q]]_vars

C19_Witness ==
    /\ last.op = "EditFinalityProvider"
    /\ last.err = "nil"
    /\ DOMAIN fps = FpPks
    /\ fps[last.pk].Addr = "BBN1A"
    /\ fps[last.pk].Description = "d1"
    /\ fps[last.pk].Slashed
    /\ fps[last.pk].SlashedBtcHeight > 0

(***************************************************************************)
(* C20: EditFinalityProvider accepts a commission c only if                *)
(* minRate <= c <= 1, minRate being the minimum commission rate of the     *)
(* latest parameters, and both bounds are accepted.  A commission below    *)
(* minRate is rejected with ErrCommissionLTMinRate, one above 1 with       *)
(* ErrCommissionGTMaxRate, and the stored commission is unchanged.         *)
(***************************************************************************)
LatestMinRate == paramsStore[Len(paramsStore)].MinCommissionRate

C20_CommissionBounds ==
    /\ [](\A req \in FpEditFinalityProviderReqs :
            LET r == EditFinalityProviderCheck(req)
                c == req.commission
            IN /\ r.err = "nil" => (LatestMinRate <= c /\ c <= OneDec)
               /\ (req.basicOk /\ c < LatestMinRate) => r.err = "ErrCommissionLTMinRate"
               /\ (req.basicOk /\ c >= LatestMinRate /\ c > OneDec)
                    => r.err = "ErrCommissionGTMaxRate"
               /\ (req.basicOk /\ LatestMinRate <= c /\ c <= OneDec
                     /\ req.btcPk \in DOMAIN fps
                     /\ SameAccount(req.addr, fps[req.btcPk].Addr))
                    => r.err = "nil")
    /\ [][(last'.op = "EditFinalityProvider" /\ last'.pk \in DOMAIN fps) =>
            IF last'.err = "nil"
            THEN /\ LatestMinRate <= fps'[last'.pk].Commission
                 /\ fps'[last'.pk].Commission <= OneDec
            ELSE fps'[last'.pk].Commission = fps[last'.pk].Commission]_vars

C20_Witness ==
    /\ last.op = "EditFinalityProvider"
    /\ last.err = "ErrCommissionLTMinRate"
    /\ last.line = 92
    /\ last.pk \in DOMAIN fps
    /\ fps[last.pk].Commission < LatestMinRate

(***************************************************************************)
(* C21: the derived status of a stored delegation is one of PENDING,       *)
(* ACTIVE, UNBONDED at every tip height, finalization timeout and quorum.  *)
(* A delegation without inclusion proof (StartHeight = EndHeight = 0) and  *)
(* without the staker's unbonding signature derives PENDING at all of      *)
(* them, although tip >= EndHeight - w holds for it; so AddCovenantSigs    *)
(* never refuses it as unbonded and BTCUndelegate refuses it as pending.   *)
(***************************************************************************)
ProbeTips == 0..(MaxTip + 2)

ProbeTimeouts == 0..2

ProbeQuorums == 0..3

Unproven(d) == d.StartHeight = 0 /\ d.EndHeight = 0 /\ ~d.DelegatorUnbondingSig

LacksQuorum(ds, h) ==
    ~HasCovenantQuorums(ds[h], GetParamsByVersion(ds[h].ParamsVersion).CovenantQuorum)

C22_CreatedUnsigned ==
    /\ [](/\ \A i \in DOMAIN paramsStore : paramsStore[i].CovenantQuorum >= 1
          /\ \A h \in DOMAIN dels : LacksQuorum(dels, h) => Status(h) # ACTIVE)
    /\ [][/\ (last'.op = "CreateBTCDelegation" /\ last'.err = "nil") =>
               LET d == dels'[last'.hash] IN
               /\ last'.hash \notin DOMAIN dels
               /\ CovSigSets(d) = <<{}, {}, {}>>
               /\ ~d.DelegatorUnbondingSig
               /\ LacksQuorum(dels', last'.hash)
               /\ StatusIn(dels', tip', last'.hash) = PENDING
          /\ (last'.op = "BTCUndelegate" /\ last'.hash \in DOMAIN dels
                /\ LacksQuorum(dels, last'.hash)) =>
               (last'.err # "nil" /\ dels' = dels)]_vars

C22_Witness ==
    /\ last.op = "CreateBTCDelegation"
    /\ last.err = "nil"
    /\ last.height # 0
    /\ HasInclusionProof(dels[last.hash])
    /\ CovSigSets(dels[last.hash]) = <<{}, {}, {}>>
    /\ Status(last.hash) = PENDING

(***************************************************************************)
(* C23: the refundable index grows only by the message of an               *)
(* AddBTCDelegationInclusionProof, AddCovenantSigs, BTCUndelegate or       *)
(* SelectiveSlashingEvidence that returned success, by exactly that one    *)
(* message; a request of these four that returns an error, and every other *)
(* operation, leaves the index as it was.                                  *)
(***************************************************************************)
RefundableOps ==
    {"AddBTCDelegationInclusionProof", "AddCovenantSigs", "BTCUndelegate",
     "SelectiveSlashingEvidence"}

IndexedMsg(l) ==
    [op |-> l.op, hash |-> l.hash,
     pk |-> IF l.op \in {"AddCovenantSigs", "SelectiveSlashingEvidence"} THEN l.pk ELSE 0]

C23_RefundableOnlyOnSuccess ==
    /\ [](\A m \in BagToSet(refundable) : m.op \in RefundableOps /\ m.hash \in DOMAIN dels)
    /\ [][IF last'.op \in RefundableOps /\ last'.err = "nil"
          THEN refundable' = refundable (+) SetToBag({IndexedMsg(last')})
          ELSE refundable' = refundable]_vars

C23_Witness ==
    /\ last.op = "BTCUndelegate"
    /\ last.err = "ErrInvalidBTCUndelegateReq"
    /\ last.line = 510
    /\ \E m \in BagToSet(refundable) : m.op = "BTCUndelegate" /\ m.hash = last.hash
    /\ \A m \in BagToSet(refundable) : m.op = "BTCUndelegate" => CopiesIn(m, refundable) = 1

(***************************************************************************)
(* C24: the power-distribution event log is append-only.  Every step       *)
(* keeps the events recorded so far, unaltered and in place, and only an   *)
(* accepted AddBTCDelegationInclusionProof adds events; at every height    *)
(* the events of that height are the earlier ones followed by the new      *)
(* ones, so events of different delegations recorded at one height stay    *)
(* in the order of their insertion.                                        *)
(***************************************************************************)
IsPrefix(s, t) == Len(s) <= Len(t) /\ SubSeq(t, 1, Len(s)) = s

EventsAt(log, height) == SelectSeq(log, LAMBDA e : e.height = height)

EventHeights == 0..(MaxTip + 3)

C24_EventLogAppendOnly ==
    [][/\ IsPrefix(powerDistEvents, powerDistEvents')
       /\ powerDistEvents' # powerDistEvents => ProofAccepted
       /\ \A e \in {powerDistEvents'[i] : i \in DOMAIN powerDistEvents'} :
            e.height \in EventHeights
       /\ \A height \in EventHeights :
            /\ IsPrefix(EventsAt(powerDistEvents, height), EventsAt(powerDistEvents', height))
            /\ ProofAccepted =>
                 EventsAt(powerDistEvents', height) =
                   EventsAt(powerDistEvents, height) \o
                   EventsAt(SubSeq(powerDistEvents', Len(powerDistEvents) + 1,
                                   Len(powerDistEvents')), height)]_vars

C24_Witness ==
    /\ Len(powerDistEvents) = 4
    /\ powerDistEvents[1].hash # powerDistEvents[3].hash
    /\ powerDistEvents[1].height = powerDistEvents[3].height
    /\ powerDistEvents[1].state = ACTIVE
    /\ powerDistEvents[3].state = ACTIVE
    /\ last.op = "AddBTCDelegationInclusionProof"
    /\ last.hash = powerDistEvents[3].hash

(***************************************************************************)
(* C25 as stated: a malformed or out-of-bounds request (unparsable         *)
(* message, invalid address, commission out of bounds, staking value or    *)
(* time outside the parameter bounds) returns its validation error         *)
(* whatever the delegation store and the provider registry hold, also      *)
(* when it names an already used staking tx or an unknown provider.        *)
(***************************************************************************)
ValidationErrors ==
    {"InvalidArgument", "ErrInvalidProofOfPossession", "ErrInvalidParams",
     "ErrCommissionLTMinRate", "ErrCommissionGTMaxRate"}

CommissionOutOfBounds(commission) == commission < LatestMinRate \/ commission > OneDec

MalformedEdit(req) ==
    ~req.basicOk \/ CommissionOutOfBounds(req.commission) \/ req.addr \notin ValidBech32

C25_Original ==
    /\ \A req \in FpCreateBTCDelegationReqs :
         req.fault \in {"parse", "pop", "params"}
           => CreateBTCDelegationCheck(req).err \in ValidationErrors
    /\ \A req \in FpEditFinalityProviderReqs :
         MalformedEdit(req) => EditFinalityProviderCheck(req).err \in ValidationErrors

(***************************************************************************)
(* C25 as amended: an unparsable CreateBTCDelegation or one with an        *)
(* invalid proof of possession, an EditFinalityProvider that fails the     *)
(* stateless check and one whose commission is out of bounds return their  *)
(* validation error whatever the store and the registry hold.  A staking   *)
(* value or time outside the parameter bounds is reported only for a new   *)
(* staking tx whose providers are all registered and not slashed:          *)
(* otherwise the request returns ErrReusedStakingTx or the provider's      *)
(* error.  An invalid address in EditFinalityProvider is reported only for *)
(* a registered provider: for an unknown one the request returns           *)
(* ErrFpNotFound.                                                          *)
(***************************************************************************)
C25_ValidationOrder ==
    /\ [](\A req \in FpCreateBTCDelegationReqs :
            LET r == CreateBTCDelegationCheck(req) IN
            /\ req.fault = "parse" => (r.err = "InvalidArgument" /\ r.line = 133)
            /\ req.fault = "pop" => (r.err = "ErrInvalidProofOfPossession" /\ r.line = 139)
            /\ req.fault = "params" =>
                 IF req.hash \in DOMAIN dels
                 THEN r.err = "ErrReusedStakingTx" /\ r.line = 146
                 ELSE IF NamesBadProvider(req.fpList)
                 THEN r.err \in {"ErrFpNotFound", "ErrFpAlreadySlashed"} /\ r.line \in {155, 159}
                 ELSE r.err = "ErrInvalidParams" /\ r.line = 171)
    /\ [](\A req \in FpEditFinalityProviderReqs :
            LET r == EditFinalityProviderCheck(req) IN
            /\ ~req.basicOk => (r.err = "InvalidArgument" /\ r.line = 85)
            /\ (req.basicOk /\ CommissionOutOfBounds(req.commission)) =>
                 (r.err \in {"ErrCommissionLTMinRate", "ErrCommissionGTMaxRate"}
                    /\ r.line \in {92, 95})
            /\ (req.basicOk /\ ~CommissionOutOfBounds(req.commission)
                  /\ req.addr \notin ValidBech32) =>
                 IF req.btcPk \in DOMAIN fps
                 THEN r.err = "InvalidArgument" /\ r.line = 106
                 ELSE r.err = "ErrFpNotFound" /\ r.line = 101)
    /\ [][(last'.op = "CreateBTCDelegation" /\ last'.line = 133) =>
            (last'.err = "InvalidArgument" /\ dels' = dels /\ fps' = fps)]_vars

C25_Witness ==
    /\ last.op = "CreateBTCDelegation"
    /\ last.err = "InvalidArgument"
    /\ last.line = 133
    /\ last.hash \in DOMAIN dels
    /\ \E pk \in DOMAIN fps : fps[pk].Slashed

(***************************************************************************)
(* The message server with one finality provider and one delegation, all   *)
(* nine operations exposed: the provider registers, edits its description, *)
(* and the delegation goes through its whole life, with well-formed and    *)
(* with faulty messages.                                                   *)
(***************************************************************************)
FrameCreateFinalityProviderReqs ==
    [btcPk : {PrivKeyFromBytes(1)}, addr : Addrs, description : {"d0"},
     commission : {OneDec}, fault : {"none"}]

FrameEditFinalityProviderReqs ==
    [btcPk : {PrivKeyFromBytes(1)}, addr : {"bbn1", "bbn1b"}, description : FpDescriptions,
     commission : {OneDec}, basicOk : {TRUE}]

FrameCreateBTCDelegationReqs ==
    [hash : TxHashes, fpList : {<<PrivKeyFromBytes(1)>>}, stakingTime : {2},
     fault : {"none", "params"}, proof : {NoProof}]
    \cup [hash : TxHashes, fpList : {<<PrivKeyFromBytes(1)>>}, stakingTime : {2},
          fault : {"none"}, proof : Proofs({"none"})]

FrameAddBTCDelegationInclusionProofReqs ==
    [hash : TxHashes, proof : Proofs({"none"}) \cup BadProofs({"merkle"})]

FrameAddCovenantSigsReqs == FpAddCovenantSigsReqs \cup AddCovenantSigsReqsOf(TxHashes, {1})

FrameBTCUndelegateReqs ==
    [hash : TxHashes, basicOk : {TRUE}, UnbondingTxSig : BOOLEAN]
    \cup [hash : TxHashes, basicOk : {FALSE}, UnbondingTxSig : {TRUE}]

NextFrame ==
    \/ AdvanceTip
    \/ \E req \in FpUpdateParamsReqs : UpdateParams(req)
    \/ \E req \in FrameCreateFinalityProviderReqs : CreateFinalityProvider(req)
    \/ \E req \in FrameEditFinalityProviderReqs : EditFinalityProvider(req)
    \/ \E req \in FrameCreateBTCDelegationReqs : CreateBTCDelegation(req)
    \/ \E req \in FrameAddBTCDelegationInclusionProofReqs : AddBTCDelegationInclusionProof(req)
    \/ \E req \in FrameAddCovenantSigsReqs : AddCovenantSigs(req)
    \/ \E req \in FrameBTCUndelegateReqs : BTCUndelegate(req)
    \/ \E req \in FpSelectiveSlashingEvidenceReqs : SelectiveSlashingEvidence(req)

SpecFrame == Init /\ [][NextFrame]_vars

(***************************************************************************)
(* C26 as stated: only the five transitions (CreateBTCDelegation,          *)
(* AddBTCDelegationInclusionProof, AddCovenantSigs, BTCUndelegate,         *)
(* SelectiveSlashingEvidence) change a finality-provider or delegation     *)
(* record; every other operation leaves all of them unchanged.             *)
(***************************************************************************)
C26_Original ==
    [][(fps' # fps \/ dels' # dels) => last'.op \in Transitions]_vars

(***************************************************************************)
(* C26 as amended: a delegation record is added or changed only by a       *)
(* successful CreateBTCDelegation, AddBTCDelegationInclusionProof,         *)
(* AddCovenantSigs or BTCUndelegate.  A finality-provider record is added  *)
(* only by a successful CreateFinalityProvider and changed only by a       *)
(* successful EditFinalityProvider (description and commission) or         *)
(* SelectiveSlashingEvidence (slashing).  UpdateParams, the advance of the *)
(* BTC tip and every rejected message leave all records unchanged.         *)
(***************************************************************************)
DelegationWriters ==
    {"CreateBTCDelegation", "AddBTCDelegationInclusionProof", "AddCovenantSigs",
     "BTCUndelegate"}

ProviderWriters ==
    {"CreateFinalityProvider", "EditFinalityProvider", "SelectiveSlashingEvidence"}

C26_RecordWriters ==
    [][/\ dels' # dels => (last'.op \in DelegationWriters /\ last'.err = "nil")
       /\ fps' # fps => (last'.op \in ProviderWriters /\ last'.err = "nil")
       /\ DOMAIN fps' # DOMAIN fps => last'.op = "CreateFinalityProvider"
       /\ DOMAIN dels' # DOMAIN dels => last'.op = "CreateBTCDelegation"
       /\ \A q \in DOMAIN fps :
            /\ q \in DOMAIN fps'
            /\ fps'[q] # fps[q] =>
                 \/ /\ last'.op = "EditFinalityProvider"
                    /\ fps'[q].Slashed = fps[q].Slashed
                 \/ /\ last'.op = "SelectiveSlashingEvidence"
                    /\ fps'[q].Description = fps[q].Description
                    /\ fps'[q].Commission = fps[q].Commission]_vars

C26_Witness ==
    /\ last.op = "EditFinalityProvider"
    /\ last.err = "nil"
    /\ fps[last.pk].Description = "d1"
    /\ fps[last.pk].Slashed
    /\ \E h \in DOMAIN dels : dels[h].DelegatorUnbondingSig /\ HasInclusionProof(dels[h])

(***************************************************************************)
(* The message server over a store that holds, from the start, a           *)
(* delegation (staking tx 1) whose parameter version is not in the         *)
(* parameter store, as after the import of an inconsistent state.  The     *)
(* handlers of src/ cannot produce such a record: versions are only added  *)
(* and a new delegation records the current one.  A second delegation      *)
(* (staking tx 2) is created and handled as usual.                         *)
(***************************************************************************)
DanglingVersion == MaxParamsVersions

DanglingDelegations ==
    { [NewBTCDelegation([hash |-> 1, fpList |-> <<PrivKeyFromBytes(1)>>, stakingTime |-> 2],
                        hs[1], hs[2], DanglingVersion)
         EXCEPT !.CovenantSigs = sigs, !.CovenantSlashingSigs = sigs,
                !.CovenantUnbondingSigList = sigs] :
        hs \in {<<0, 0>>, <<1, 3>>}, sigs \in {{}, {1, 2}} }

InitFault ==
    /\ fps = AddFinalityProvider(<< >>, [btcPk |-> PrivKeyFromBytes(1), addr |-> "bbn1",
                                         description |-> "d0", commission |-> OneDec])
    /\ dels \in {(1 :> d) : d \in DanglingDelegations}
    /\ paramsStore = <<GenesisParams>>
    /\ tip = 1
    /\ wValue \in WValues
    /\ powerDistEvents = << >>
    /\ refundable = EmptyBag
    /\ gasFees = 0
    /\ last = NoLast("init")

FaultCreateBTCDelegationReqs ==
    [hash : PairTxHashes, fpList : {<<PrivKeyFromBytes(1)>>}, stakingTime : {2},
     fault : {"none"}, proof : {NoProof}]

FaultAddCovenantSigsReqs == AddCovenantSigsReqsOf(PairTxHashes, {1})

FaultBTCUndelegateReqs == [hash : PairTxHashes, basicOk : BOOLEAN, UnbondingTxSig : {TRUE}]

FaultSelectiveSlashingEvidenceReqs == [hash : PairTxHashes, RecoveredFpBtcSk : {1}]

NextFault ==
    \/ AdvanceTip
    \/ \E req \in FpUpdateParamsReqs : UpdateParams(req)
    \/ \E req \in FaultCreateBTCDelegationReqs : CreateBTCDelegation(req)
    \/ \E req \in PairAddBTCDelegationInclusionProofReqs : AddBTCDelegationInclusionProof(req)
    \/ \E req \in FaultAddCovenantSigsReqs : AddCovenantSigs(req)
    \/ \E req \in FaultBTCUndelegateReqs : BTCUndelegate(req)
    \/ \E req \in FaultSelectiveSlashingEvidenceReqs : SelectiveSlashingEvidence(req)

SpecFault == InitFault /\ [][NextFault]_vars

(***************************************************************************)
(* C27: when the stored delegation a request names records a parameter     *)
(* version that is not in the parameter store,                             *)
(* AddBTCDelegationInclusionProof, AddCovenantSigs, BTCUndelegate and      *)
(* SelectiveSlashingEvidence end in the panic of getBTCDelWithParams, not  *)
(* in an error result (only a message that fails the stateless             *)
(* ValidateBasic of AddCovenantSigs or BTCUndelegate is rejected before    *)
(* the delegation is read), and nothing of the state is changed.           *)
(***************************************************************************)
Dangling(h) == h \in DOMAIN dels /\ ~HasParamsVersion(dels[h].ParamsVersion)

C27_MissingParamsPanics ==
    /\ [](/\ \A req \in PairAddBTCDelegationInclusionProofReqs :
               Dangling(req.hash) =>
                 AddBTCDelegationInclusionProofCheck(req) = Ret("panic", 326, 0)
          /\ \A req \in FaultAddCovenantSigsReqs :
               (Dangling(req.hash) /\ req.basicOk) =>
                 AddCovenantSigsCheck(req) = Ret("panic", 326, 0)
          /\ \A req \in FaultBTCUndelegateReqs :
               (Dangling(req.hash) /\ req.basicOk) =>
                 BTCUndelegateCheck(req) = Ret("panic", 326, 0)
          /\ \A req \in FaultSelectiveSlashingEvidenceReqs :
               Dangling(req.hash) =>
                 SelectiveSlashingEvidenceCheck(req) = Ret("panic", 326, 0))
    /\ [][(last'.op \in RefundableOps /\ Dangling(last'.hash)) =>
            /\ \/ last'.err = "panic" /\ last'.line = 326
               \/ last'.err = "InvalidArgument" /\ last'.line \in {340, 490}
            /\ UNCHANGED <<fps, dels, paramsStore, tip, wValue, powerDistEvents,
                           refundable, gasFees>>]_vars

C27_Witness ==
    /\ last.op = "SelectiveSlashingEvidence"
    /\ last.err = "panic"
    /\ last.line = 326
    /\ Dangling(last.hash)
    /\ HasInclusionProof(dels[last.hash])
    /\ dels[last.hash].CovenantSigs # {}
    /\ \E h \in DOMAIN dels : ~Dangling(h) /\ dels[h].CovenantSigs # {}

(***************************************************************************)
(* The message server with one delegation while the BTC tip keeps          *)
(* advancing: the tip grows up to the height at which the last delegation  *)
(* that can be proven within MaxTip expires, and the advance of the tip is *)
(* weakly fair.                                                            *)
(***************************************************************************)
ExpiryHorizon ==
    MaxTip + (CHOOSE t \in StakingTimes : \A u \in StakingTimes : u <= t)
           - (CHOOSE w \in WValues : \A u \in WValues : w <= u)

AdvanceTipToHorizon ==
    /\ tip < ExpiryHorizon
    /\ tip' = tip + 1
    /\ last' = NoLast("AdvanceTip")
    /\ UNCHANGED <<fps, dels, paramsStore, wValue, powerDistEvents, refundable, gasFees>>

LiveCreateBTCDelegationReqs ==
    [hash : TxHashes, fpList : {<<PrivKeyFromBytes(1)>>}, stakingTime : StakingTimes,
     fault : {"none"}, proof : {NoProof} \cup Proofs({"none"})]

LiveAddCovenantSigsReqs ==
    { [hash |-> h, pk |-> pk, basicOk |-> TRUE,
       SlashingTxSigs |-> SigList(1, TRUE),
       UnbondingTxSig |-> TRUE,
       SlashingUnbondingTxSigs |-> SigList(1, TRUE)] :
        h \in TxHashes, pk \in {1, 3} }

NextLive ==
    \/ AdvanceTipToHorizon
    \/ \E req \in FrameCreateFinalityProviderReqs : CreateFinalityProvider(req)
    \/ \E req \in LiveCreateBTCDelegationReqs : CreateBTCDelegation(req)
    \/ \E req \in FrameAddBTCDelegationInclusionProofReqs : AddBTCDelegationInclusionProof(req)
    \/ \E req \in LiveAddCovenantSigsReqs : AddCovenantSigs(req)
    \/ \E req \in FrameBTCUndelegateReqs : BTCUndelegate(req)

SpecLive == Init /\ [][NextLive]_vars /\ WF_vars(AdvanceTipToHorizon)

HasProofAndQuorum(h) ==
    /\ h \in DOMAIN dels
    /\ HasInclusionProof(dels[h])
    /\ ~LacksQuorum(dels, h)

DerivesUnbonded(h) == h \in DOMAIN dels /\ Status(h) = UNBONDED

UnbondedByHeightOnly(h) ==
    /\ Status(h) = UNBONDED
    /\ ~dels[h].DelegatorUnbondingSig
    /\ tip >= dels[h].EndHeight - wValue

C31_SlashingAfterExpiry ==
    [][(last'.op = "SelectiveSlashingEvidence" /\ last'.hash \in DOMAIN dels) =>
         LET h == last'.hash IN
         /\ UnbondedByHeightOnly(h) =>
              /\ last'.err = "ErrBTCDelegationNotFound"
              /\ last'.line = 568
              /\ fps' = fps
         /\ (/\ dels[h].DelegatorUnbondingSig
             /\ \E i \in DOMAIN dels[h].FpBtcPkList : dels[h].FpBtcPkList[i] = last'.pk
             /\ last'.pk \in DOMAIN fps
             /\ ~fps[last'.pk].Slashed) =>
              /\ last'.err = "nil"
              /\ fps'[last'.pk].Slashed]_vars

C31_Witness ==
    /\ last.op = "SelectiveSlashingEvidence"
    /\ last.err = "ErrBTCDelegationNotFound"
    /\ last.line = 568
    /\ UnbondedByHeightOnly(last.hash)
    /\ HasInclusionProof(dels[last.hash])
    /\ \A pk \in DOMAIN fps : ~fps[pk].Slashed

(***************************************************************************)
(* C32: in every reachable state a delegation with the staker's unbonding  *)
(* signature has an inclusion proof and a covenant quorum of its parameter *)
(* version.  So AddBTCDelegationInclusionProof never returns the 'already  *)
(* unbonded' error of its fourth step: for such a delegation it returns    *)
(* the 'already has inclusion proof' error of the second step.             *)
(***************************************************************************)
C32_UnbondedEarlyWasActive ==
    /\ [](\A h \in DOMAIN dels :
            dels[h].DelegatorUnbondingSig =>
              (HasInclusionProof(dels[h]) /\ ~LacksQuorum(dels, h)))
    /\ [][last'.op = "AddBTCDelegationInclusionProof" =>
            /\ last'.line # 259
            /\ last'.err # "ErrAlreadyUnbonded"
            /\ (last'.hash \in DOMAIN dels /\ dels[last'.hash].DelegatorUnbondingSig) =>
                 (last'.err = "ErrHasInclusionProof" /\ last'.line = 249)]_vars

C32_Witness ==
    /\ last.op = "AddBTCDelegationInclusionProof"
    /\ last.err = "ErrHasInclusionProof"
    /\ last.line = 249
    /\ dels[last.hash].DelegatorUnbondingSig

(***************************************************************************)
(* C33: for every delegation the covenant members with staking-slashing    *)
(* signatures are the members with unbonding-slashing signatures and the   *)
(* members with unbonding signatures.  An accepted AddCovenantSigs adds    *)
(* its member to all three sets at once, and the member was in none of     *)
(* them before: a member that has signed is never accepted again.          *)
(***************************************************************************)
C33_SignatureSetsAgree ==
    /\ [](\A h \in DOMAIN dels :
            /\ dels[h].CovenantSigs = dels[h].CovenantSlashingSigs
            /\ dels[h].CovenantSigs = dels[h].CovenantUnbondingSigList)
    /\ [][(last'.op = "AddCovenantSigs" /\ last'.hash \in DOMAIN dels) =>
            LET h == last'.hash
                pk == last'.pk
                signed == dels[h].CovenantSigs \cup dels[h].CovenantSlashingSigs
                            \cup dels[h].CovenantUnbondingSigList
            IN IF last'.err = "nil"
               THEN /\ pk \notin signed
                    /\ CovSigSets(dels'[h]) =
                         <<dels[h].CovenantSigs \cup {pk},
                           dels[h].CovenantSlashingSigs \cup {pk},
                           dels[h].CovenantUnbondingSigList \cup {pk}>>
               ELSE CovSigSets(dels'[h]) = CovSigSets(dels[h])]_vars

C33_Witness ==
    /\ last.op = "AddCovenantSigs"
    /\ last.err = "ErrDuplicatedCovenantSig"
    /\ last.line = 358
    /\ last.pk \in dels[last.hash].CovenantSigs
    /\ Cardinality(dels[last.hash].CovenantUnbondingSigList) = 2

(***************************************************************************)
(* C34: the covenant members that signed a delegation are members of the   *)
(* covenant key set of the delegation's parameter version, and the set     *)
(* only grows, so a delegation that has a quorum keeps it.  The set may    *)
(* exceed the quorum: a well-formed AddCovenantSigs of a member that has   *)
(* not signed yet is accepted and indexed refundable when the delegation   *)
(* already has a quorum, as long as the delegation is not UNBONDED.        *)
(***************************************************************************)
SignedMembers(d) == d.CovenantSigs \cup d.CovenantSlashingSigs \cup d.CovenantUnbondingSigList

LateSignature(h, pk) ==
    /\ h \in DOMAIN dels
    /\ pk \in ParamsOf(dels[h]).CovenantPks
    /\ pk \notin SignedMembers(dels[h])
    /\ ~LacksQuorum(dels, h)
    /\ Status(h) # UNBONDED

C34_SignedMembersGrow ==
    /\ [](/\ \A h \in DOMAIN dels :
               SignedMembers(dels[h]) \subseteq ParamsOf(dels[h]).CovenantPks
          /\ \A req \in FpAddCovenantSigsReqs :
               LateSignature(req.hash, req.pk) => AddCovenantSigsCheck(req).err = "nil")
    /\ [][\A h \in DOMAIN dels :
            /\ h \in DOMAIN dels'
            /\ dels'[h].ParamsVersion = dels[h].ParamsVersion
            /\ dels[h].CovenantSigs \subseteq dels'[h].CovenantSigs
            /\ dels[h].CovenantSlashingSigs \subseteq dels'[h].CovenantSlashingSigs
            /\ dels[h].CovenantUnbondingSigList \subseteq dels'[h].CovenantUnbondingSigList
            /\ ~LacksQuorum(dels, h) => ~LacksQuorum(dels', h)]_vars
    /\ [][(last'.op = "AddCovenantSigs" /\ LateSignature(last'.hash, last'.pk)) =>
            /\ last'.line \notin {346, 351, 358, 367}
            /\ last'.err = "nil" =>
                 /\ last'.pk \in dels'[last'.hash].CovenantSigs
                 /\ refundable' = refundable (+) SetToBag({IndexedMsg(last')})]_vars

C34_Witness ==
    /\ last.op = "AddCovenantSigs"
    /\ last.err = "nil"
    /\ Status(last.hash) # UNBONDED
    /\ Cardinality(dels[last.hash].CovenantSigs) >
         ParamsOf(dels[last.hash]).CovenantQuorum
    /\ BagIn(IndexedMsg(last), refundable)

(***************************************************************************)
(* C35: what a delegation is created with (staking transaction, finality   *)
(* providers, staking time, staked amount, parameter version) is never     *)
(* changed, and once the start height is not zero the start and end        *)
(* heights are not changed either.  A stored delegation is changed only    *)
(* by AddBTCDelegationInclusionProof, which changes the two heights and    *)
(* nothing else, by AddCovenantSigs, which changes the three covenant      *)
(* signature sets and nothing else, and by BTCUndelegate, which changes    *)
(* the staker's unbonding signature and nothing else.                      *)
(***************************************************************************)
CreationFields(d) ==
    <<d.StakingTx, d.FpBtcPkList, d.StakingTime, d.TotalSat, d.ParamsVersion>>

C35_WriteOnceFields ==
    [][\A h \in DOMAIN dels :
         /\ h \in DOMAIN dels'
         /\ CreationFields(dels'[h]) = CreationFields(dels[h])
         /\ dels[h].StartHeight # 0 =>
              /\ dels'[h].StartHeight = dels[h].StartHeight
              /\ dels'[h].EndHeight = dels[h].EndHeight
         /\ dels'[h] # dels[h] =>
              /\ last'.hash = h
              /\ last'.err = "nil"
              /\ \/ /\ last'.op = "AddBTCDelegationInclusionProof"
                    /\ dels'[h] = [dels[h] EXCEPT !.StartHeight = dels'[h].StartHeight,
                                                  !.EndHeight = dels'[h].EndHeight]
                 \/ /\ last'.op = "AddCovenantSigs"
                    /\ dels'[h] =
                         [dels[h] EXCEPT
                            !.CovenantSigs = dels'[h].CovenantSigs,
                            !.CovenantSlashingSigs = dels'[h].CovenantSlashingSigs,
                            !.CovenantUnbondingSigList = dels'[h].CovenantUnbondingSigList]
                 \/ /\ last'.op = "BTCUndelegate"
                    /\ dels'[h] = [dels[h] EXCEPT !.DelegatorUnbondingSig = TRUE]]_vars

C35_Witness ==
    /\ last.op = "BTCUndelegate"
    /\ last.err = "nil"
    /\ dels[last.hash].StartHeight # 0
    /\ dels[last.hash].CovenantSigs # {}
    /\ dels[last.hash].DelegatorUnbondingSig
    /\ dels[last.hash].ParamsVersion # GetParamsWithVersion.Version
    /\ dels[last.hash].TotalSat = StakingValue([hash |-> last.hash])

(***************************************************************************)
(* C38: a successful SelectiveSlashingEvidence slashes one finality        *)
(* provider, the one of the recovered key, which was not slashed before.   *)
(* Every other provider and every delegation, the one named by the         *)
(* evidence and the others staked to the slashed provider included, are    *)
(* left as they were.                                                      *)
(***************************************************************************)
StakedTo(d, pk) == \E i \in DOMAIN d.FpBtcPkList : d.FpBtcPkList[i] = pk

C38_SlashesOneProvider ==
    [][(last'.op = "SelectiveSlashingEvidence" /\ last'.err = "nil") =>
         /\ dels' = dels
         /\ DOMAIN fps' = DOMAIN fps
         /\ last'.pk \in DOMAIN fps
         /\ ~fps[last'.pk].Slashed
         /\ fps'[last'.pk].Slashed
         /\ fps'[last'.pk].Description = fps[last'.pk].Description
         /\ fps'[last'.pk].Commission = fps[last'.pk].Commission
         /\ \A q \in DOMAIN fps : q # last'.pk => fps'[q] = fps[q]]_vars

C38_Witness ==
    /\ last.op = "SelectiveSlashingEvidence"
    /\ last.err = "nil"
    /\ fps[last.pk].Slashed
    /\ \E q \in DOMAIN fps, h \in DOMAIN dels :
         /\ q # last.pk
         /\ ~fps[q].Slashed
         /\ h # last.hash
         /\ StakedTo(dels[h], last.pk)
         /\ StakedTo(dels[h], q)
         /\ Status(h) = ACTIVE

(***************************************************************************)
(* C39: the parameter version recorded in a stored delegation is a version *)
(* of the parameter store: CreateBTCDelegation records the latest version  *)
(* and parameter updates only add versions.  So no handler ends in the     *)
(* fault 'params version in BTC delegation is not found' of                *)
(* getBTCDelWithParams.                                                    *)
(***************************************************************************)
C39_ParamsVersionExists ==
    /\ [](\A h \in DOMAIN dels : HasParamsVersion(dels[h].ParamsVersion))
    /\ [][/\ last'.line # 326
          /\ Len(paramsStore') >= Len(paramsStore)
          /\ \A v \in DOMAIN paramsStore : paramsStore'[v] = paramsStore[v]
          /\ (last'.op = "CreateBTCDelegation" /\ last'.err = "nil") =>
               dels'[last'.hash].ParamsVersion = Len(paramsStore) - 1]_vars

C39_Witness ==
    /\ last.op \in {"AddBTCDelegationInclusionProof", "AddCovenantSigs", "BTCUndelegate",
                    "SelectiveSlashingEvidence"}
    /\ last.err = "nil"
    /\ Len(paramsStore) = MaxParamsVersions
    /\ dels[last.hash].ParamsVersion = 0
    /\ paramsStore[1] # paramsStore[MaxParamsVersions]

(***************************************************************************)
(* C40: AddBTCDelegationInclusionProof succeeds at most once for a         *)
(* delegation, BTCUndelegate succeeds at most once for a delegation and    *)
(* SelectiveSlashingEvidence succeeds at most once for a finality          *)
(* provider.  What a success writes (the inclusion proof, the staker's     *)
(* unbonding signature, the slashing of the provider) is never undone, so  *)
(* a request for a target it has been applied to is rejected and each of   *)
(* the three is indexed refundable at most once per target.                *)
(***************************************************************************)
AppliedTo(op, h, pk) ==
    CASE op = "AddBTCDelegationInclusionProof" -> h \in DOMAIN dels /\ HasInclusionProof(dels[h])
      [] op = "BTCUndelegate" -> h \in DOMAIN dels /\ dels[h].DelegatorUnbondingSig
      [] op = "SelectiveSlashingEvidence" -> pk \in DOMAIN fps /\ fps[pk].Slashed
      [] OTHER -> FALSE

OncePerTarget == {"AddBTCDelegationInclusionProof", "BTCUndelegate", "SelectiveSlashingEvidence"}

C40_AtMostOnce ==
    /\ [](\A m \in BagToSet(refundable) :
            m.op \in OncePerTarget =>
              /\ CopiesIn(m, refundable) = 1
              /\ AppliedTo(m.op, m.hash, m.pk)
              /\ \A n \in BagToSet(refundable) :
                   (n.op = "SelectiveSlashingEvidence" /\ n.op = m.op /\ n.pk = m.pk) => n = m)
    /\ [][/\ \A h \in DOMAIN dels :
               /\ HasInclusionProof(dels[h]) => HasInclusionProof(dels'[h])
               /\ dels[h].DelegatorUnbondingSig => dels'[h].DelegatorUnbondingSig
          /\ \A pk \in DOMAIN fps : fps[pk].Slashed => fps'[pk].Slashed
          /\ last'.op \in OncePerTarget =>
               IF last'.err = "nil"
               THEN /\ ~AppliedTo(last'.op, last'.hash, last'.pk)
                    /\ ~BagIn(IndexedMsg(last'), refundable)
               ELSE refundable' = refundable
          /\ (last'.op \in OncePerTarget /\ AppliedTo(last'.op, last'.hash, last'.pk)) =>
               (last'.err # "nil" /\ UNCHANGED <<fps, dels, refundable, powerDistEvents>>)]_vars

C40_Witness ==
    /\ last.op = "SelectiveSlashingEvidence"
    /\ last.err = "ErrFpAlreadySlashed"
    /\ \E m \in BagToSet(refundable) :
         m.op = "SelectiveSlashingEvidence" /\ m.pk = last.pk /\ m.hash # last.hash
    /\ \E h \in DOMAIN dels :
         /\ BagIn([op |-> "AddBTCDelegationInclusionProof", hash |-> h, pk |-> 0], refundable)
         /\ BagIn([op |-> "BTCUndelegate", hash |-> h, pk |-> 0], refundable)

====
